---- MODULE Spec2Model ----
(***************************************************************************)
(* Verification model of mcgen: the photon transport engine                *)
(* (src/mc/experiment.rs, particle.rs, geometry.rs, source.rs) and the     *)
(* online statistics accumulator (src/statistics.rs).                      *)
(*                                                                         *)
(* Numbers.  The program computes in f64.  The model's numbers are exact    *)
(* rationals extended with the IEEE-754 results of a division by zero:     *)
(* +inf, -inf and NaN.  The transport engine is modelled with exact        *)
(* arithmetic: what it decides depends on comparisons only.  The           *)
(* statistics accumulator is modelled with rounded arithmetic: every       *)
(* operation rounds its exact result to the nearest binary floating-point  *)
(* number (ties to even) of MantissaBits significant bits, f64 scaled      *)
(* down from its 53 bits.                                                  *)
(***************************************************************************)
EXTENDS Integers, Sequences, FiniteSets, TLC

(***************************************************************************)
(* Bounds of the model.                                                    *)
(***************************************************************************)
\* Longest sample sequence pushed into one Statistics object.
MaxPush == 4
\* The collimator is unbounded in y: its photons are followed while |y|
\* stays within this bound.
MaxY == 2
\* Photons are followed while the denominator of their energy (in units of
\* the electron rest energy) stays within this bound.
MaxEnergyDen == 2
\* The counter of lost photons saturates here.
MaxLost == 1
\* Longest iterable handed to extend and from_iter.
MaxBulk == 2
\* Significant bits of the floating-point numbers of the statistics.
MantissaBits == 4

(***************************************************************************)
(* Extended rational numbers: [n, d] with d > 0 in lowest terms is n/d;    *)
(* d = 0 encodes the IEEE specials: n = 1 is +inf, n = -1 is -inf and      *)
(* n = 0 is NaN.                                                           *)
(***************************************************************************)
Abs(i) == IF i < 0 THEN -i ELSE i

Sign(i) == IF i > 0 THEN 1 ELSE IF i < 0 THEN -1 ELSE 0

Min(a, b) == IF a < b THEN a ELSE b

RECURSIVE GCD(_, _)
GCD(a, b) == IF b = 0 THEN a ELSE GCD(b, a % b)

\* The element of a one-element set.  The({F(x) : x \in {e}}) is F(e) with
\* e evaluated once, however often F uses it.
The(S) == CHOOSE r \in S : TRUE

\* The number n/d (d >= 0) in normal form.
Normal(n, d) ==
    IF d = 0 THEN [n |-> Sign(n), d |-> 0]
    ELSE LET g == GCD(Abs(n), d) IN [n |-> n \div g, d |-> d \div g]

R(n, d) == The({ Normal(i, j) : i \in {n}, j \in {d} })

Zero == R(0, 1)
One == R(1, 1)
NaN == R(0, 0)
PosInf == R(1, 0)
NegInf == R(-1, 0)

IsNaN(a) == a.d = 0 /\ a.n = 0
IsInf(a) == a.d = 0 /\ a.n # 0
IsFinite(a) == a.d > 0

RNeg(a) == The({ [n |-> -x.n, d |-> x.d] : x \in {a} })

\* a + b; inf + (-inf) and anything with NaN give NaN.
Sum(a, b) ==
    IF IsInf(a) /\ IsInf(b) THEN (IF a = b THEN a ELSE NaN)
    ELSE R(a.n * b.d + b.n * a.d, a.d * b.d)

RAdd(a, b) == The({ Sum(x, y) : x \in {a}, y \in {b} })

RSub(a, b) == RAdd(a, RNeg(b))

\* a * b; 0 * inf and anything with NaN give NaN.
RMul(a, b) == The({ R(x.n * y.n, x.d * y.d) : x \in {a}, y \in {b} })

\* 1 / a; 1/0 is +inf (the model has one zero, the positive one).
Reciprocal(a) ==
    IF a.n > 0 THEN R(a.d, a.n)
    ELSE IF a.n < 0 THEN R(-a.d, -a.n)
    ELSE R(a.d, 0)

RRecip(a) == The({ Reciprocal(x) : x \in {a} })

\* a / b; x/0 is +-inf, 0/0 is NaN.
RDiv(a, b) == RMul(a, RRecip(b))

\* a < b as f64 compares: false whenever a or b is NaN.
Less(a, b) ==
    IF IsNaN(a) \/ IsNaN(b) THEN FALSE
    ELSE IF IsInf(a) /\ IsInf(b) THEN a.n < b.n
    ELSE a.n * b.d < b.n * a.d

RLt(a, b) == \E x \in {a}, y \in {b} : Less(x, y)

RGt(a, b) == RLt(b, a)
RLe(a, b) == \E x \in {a}, y \in {b} : ~IsNaN(x) /\ ~IsNaN(y) /\ ~Less(y, x)
RGe(a, b) == RLe(b, a)

\* Integer square root (floor).
ISqrt(i) == CHOOSE k \in 0..i : k * k <= i /\ (k + 1) * (k + 1) > i

\* Square root of a non-negative rational; exact on quotients of perfect
\* squares, the only arguments the geometry of the model produces.
Root(a) ==
    IF IsNaN(a) \/ a.n < 0 THEN NaN
    ELSE IF a.d = 0 THEN PosInf
    ELSE R(ISqrt(a.n), ISqrt(a.d))

RSqrt(a) == The({ Root(x) : x \in {a} })

(***************************************************************************)
(* Floating point: the finite numbers m * 2^e with |m| < 2^MantissaBits.   *)
(* The exponent is unbounded (no overflow, no underflow).                  *)
(***************************************************************************)
\* n/d (n, d > 0) scaled by a power of two into [2^(p-1), 2^p): the scaled
\* quotient n/d and the exponent e with n0/d0 = (n/d) * 2^e.
RECURSIVE Scaled(_, _, _)
Scaled(n, d, e) ==
    IF n >= (2 ^ MantissaBits) * d THEN Scaled(n, 2 * d, e + 1)
    ELSE IF n < (2 ^ (MantissaBits - 1)) * d THEN Scaled(2 * n, d, e - 1)
    ELSE [n |-> n, d |-> d, e |-> e]

\* The integer nearest to n/d, a tie going to the even one.
RoundHalfEven(n, d) ==
    LET f == n \div d
        r == n % d
    IN  IF 2 * r < d THEN f
        ELSE IF 2 * r > d THEN f + 1
        ELSE IF f % 2 = 0 THEN f ELSE f + 1

\* m * 2^e.
Scale2(m, e) == IF e >= 0 THEN R(m * (2 ^ e), 1) ELSE R(m, 2 ^ (-e))

Rounded(a) ==
    IF a.d = 0 \/ a.n = 0 THEN a
    ELSE The({ Scale2(Sign(a.n) * RoundHalfEven(q.n, q.d), q.e) :
               q \in {Scaled(Abs(a.n), a.d, 0)} })

\* The floating-point number nearest to a.
Fl(a) == The({ Rounded(x) : x \in {a} })

\* An integer as f64 (count as f64).
AsF64(i) == Fl(R(i, 1))

\* The f64 operators +, -, * and /.
FAdd(a, b) == Fl(RAdd(a, b))
FSub(a, b) == Fl(RSub(a, b))
FMul(a, b) == Fl(RMul(a, b))
FDiv(a, b) == Fl(RDiv(a, b))

(***************************************************************************)
(* State.                                                                  *)
(***************************************************************************)
VARIABLES
    exp,        \* the Experiment handed to simulate_particle (read-only)
    pc,         \* position in simulate_particle, or "api" in the Photon harness
    photon,     \* the Photon of the current trial
    status,     \* `result`: ParticleStatus of the last propagate of this trial
    material,   \* `material`: the last binding made by the last propagate
    event,      \* `event`: the Event drawn by the last propagate
    scale,      \* the length handed to the last Photon::step
    entry,      \* the Result of the last go_to_x (harness: of the last call)
    nLost,      \* photons classified Lost so far (saturates at MaxLost)
    call,       \* Photon harness: the method called last
    stats,      \* Statistics<X>: [count, mean, sum_of_squares]
    samples,    \* the samples pushed into `stats` so far, in order
    statsCall,  \* the last call on `stats` and the number of samples it took
    object,     \* library harnesses: the fields of the object under call
    args,       \* library harnesses: the arguments and draws of the last call
    result,     \* library harnesses: what the last call returned
    libPc       \* library harnesses: position in the call

vars == <<exp, pc, photon, status, material, event, scale, entry, nLost,
          call, stats, samples, statsCall, object, args, result, libPc>>

transportVars == <<exp, pc, photon, status, material, event, scale, entry,
                   nLost, call>>
statsVars == <<stats, samples, statsCall>>
libraryVars == <<object, args, result, libPc>>

(***************************************************************************)
(* Geometry (src/mc/geometry.rs).                                          *)
(***************************************************************************)
Point(x, y) == [x |-> x, y |-> y]

\* Point::step.
PointStep(p, d, length) ==
    [x |-> RAdd(p.x, RMul(d.dx, length)),
     y |-> RAdd(p.y, RMul(d.dy, length))]

\* Direction::new: the vector (dx, dy) normalised to length 1.
DirectionNew(dx, dy) ==
    LET len == RSqrt(RAdd(RMul(dx, dx), RMul(dy, dy)))
    IN  [dx |-> RDiv(dx, len), dy |-> RDiv(dy, len)]

\* An angle is kept as its cosine and sine: [c, s] stands for the angle
\* theta in (-pi, pi] with cos(theta) = c and sin(theta) = s.
Cos(angle) == angle.c
Sin(angle) == angle.s
\* f64::acos for mu in [-1, 1]: the angle in [0, pi] whose cosine is mu.
Acos(mu) == [c |-> mu, s |-> RSqrt(RSub(One, RMul(mu, mu)))]
\* angle * -1.0
AngleNeg(angle) == [c |-> angle.c, s |-> RNeg(angle.s)]

\* Direction::rotate.
DirectionRotate(d, angle) ==
    [dx |-> RSub(RMul(d.dx, Cos(angle)), RMul(d.dy, Sin(angle))),
     dy |-> RAdd(RMul(d.dx, Sin(angle)), RMul(d.dy, Cos(angle)))]

\* Values rng.gen_range(-1.0, 1.0) can return: the range is half-open, so
\* -1 is a possible draw and 1 is not.
RangeDraws == {R(-1, 1), R(-4, 5), R(-3, 5), R(0, 1), R(3, 5), R(4, 5)}

\* impl Rand for Direction, for the draws dx and b of the generator.
DirectionRand(dx, b) ==
    LET dy == RMul(RSqrt(RSub(One, RMul(dx, dx))),
                   IF b THEN One ELSE RNeg(One))
    IN  DirectionNew(dx, dy)

(***************************************************************************)
(* Photon (src/mc/particle.rs).                                            *)
(***************************************************************************)
\* Photon::new.
PhotonNew(location, direction, energy) ==
    [location |-> location, direction |-> direction, energy |-> energy]

\* A step that moves the photon whatever the sign of the length.
PhotonStep_Unchecked(ph, length) ==
    [res |-> "Ok",
     photon |-> [ph EXCEPT
                   !.location = PointStep(ph.location, ph.direction, length)]]

\* Photon::step: the Result and the photon after the call.
PhotonStep(ph, length) ==
    IF RGt(length, Zero)
    THEN [res |-> "Ok",
          photon |-> [ph EXCEPT
                        !.location = PointStep(ph.location, ph.direction, length)]]
    ELSE [res |-> "WrongDirection", photon |-> ph]

\* The `scale` go_to_x hands to step.
GoToXScale(ph, x) == RDiv(RSub(x, ph.location.x), ph.direction.dx)

\* Photon::go_to_x.
PhotonGoToX(ph, x) == PhotonStep(ph, GoToXScale(ph, x))

\* The `scale` go_to_y hands to step.
GoToYScale(ph, y) == RDiv(RSub(y, ph.location.y), ph.direction.dy)

\* Photon::go_to_y.
PhotonGoToY(ph, y) == PhotonStep(ph, GoToYScale(ph, y))

\* The value of `photon` while no photon exists.
NoPhoton == PhotonNew(Point(Zero, Zero), [dx |-> Zero, dy |-> Zero], Zero)

(***************************************************************************)
(* Sources (src/mc/source.rs).                                             *)
(***************************************************************************)
\* SimpleSource::emit_photon and EastPointingSource::emit_photon: the
\* photons the source can emit, over the draws of the generator.
SourceEmitPhoton(src) ==
    IF src.kind = "Simple"
    THEN { PhotonNew(src.location, DirectionRand(dx, b), src.energy) :
             dx \in RangeDraws, b \in BOOLEAN }
    ELSE { PhotonNew(src.location,
                     DirectionNew(RSqrt(RSub(One, RMul(dy, dy))), dy),
                     src.energy) : dy \in RangeDraws }

(***************************************************************************)
(* Experiments: implementations of the Experiment trait                    *)
(* (src/mc/experiment.rs).  An experiment is a record [kind, x_start,      *)
(* source]; `kind` selects the implementation of the trait methods.        *)
(*   "EndToEnd"    the experiment of the end-to-end property: Detector at  *)
(*                 x >= 10 with Fix(0), Air elsewhere with Exp(1),         *)
(*                 Absorbed in the Detector and Nothing in Air;            *)
(*   "Collimator"  ThisTask of src/bin/collimator.rs, with the detector    *)
(*                 distance and the step in air scaled down.               *)
(***************************************************************************)
\* Experiment::source.
Source(e) == e.source

\* Experiment::x_start.
XStart(e) == e.x_start

\* (T, T)::contains of src/contains.rs: low <= value && value <= high.
Contains(range, value) == RLe(range[1], value) /\ RLe(value, range[2])

\* The experiment of the end-to-end property: Detector at x >= 10.
EndToEndGetMaterial(location) ==
    IF RGe(location.x, R(10, 1)) THEN "Detector" ELSE "Air"

\* ThisTask::get_material of the collimator (detector distance scaled).
CollimatorGetMaterial(location) ==
    LET collimator_x == <<R(1, 2), R(3, 2)>>
        hole_y == <<R(-1, 10), R(1, 10)>>
    IN  IF Contains(collimator_x, location.x) /\ ~Contains(hole_y, location.y)
        THEN "Absorber"
        ELSE IF RGt(location.x, R(5, 2)) THEN "Detector"
        ELSE "Air"

\* Experiment::get_material.
GetMaterial(e, location) ==
    IF e.kind = "EndToEnd" THEN EndToEndGetMaterial(location)
    ELSE CollimatorGetMaterial(location)

\* FreePath<T>.
Fix(len) == [tag |-> "Fix", len |-> len]
Exp(mean) == [tag |-> "Exp", len |-> mean]

\* The end-to-end experiment: Fix(0) in the Detector, Exp(1.0) in Air.
EndToEndGetMeanFreePath(mat, energy) ==
    IF mat = "Detector" THEN Fix(Zero) ELSE Exp(One)

\* ThisTask::get_mean_free_path of the collimator (step in air scaled).  The
\* mean free path in lead is read from a table; the model takes it as 1/2
\* at every energy.
CollimatorGetMeanFreePath(mat, energy) ==
    CASE mat = "Detector" -> Fix(Zero)
      [] mat = "Air" -> Fix(R(1, 2))
      [] OTHER -> Exp(R(1, 2))

\* Experiment::get_mean_free_path.
GetMeanFreePath(e, mat, energy) ==
    IF e.kind = "EndToEnd" THEN EndToEndGetMeanFreePath(mat, energy)
    ELSE CollimatorGetMeanFreePath(mat, energy)

\* The end-to-end experiment: Absorbed in the Detector, Nothing in Air.
EndToEndGenEvent(mat, energy) ==
    IF mat = "Detector" THEN {"Absorbed"} ELSE {"Nothing"}

\* ThisTask::gen_event of the collimator: the events it can draw.  In lead
\* choose_pb_process chooses among three processes by weight.
CollimatorGenEvent(mat, energy) ==
    CASE mat = "Detector" -> {"Absorbed"}
      [] mat = "Air" -> {"Nothing"}
      [] OTHER -> {"CoherentScatter", "IncoherentScatter", "Absorbed"}

\* Experiment::gen_event.
GenEvent(e, mat, energy) ==
    IF e.kind = "EndToEnd" THEN EndToEndGenEvent(mat, energy)
    ELSE CollimatorGenEvent(mat, energy)

\* Values of mu the rejection samplers can return.
MuDraws == {R(-1, 1), R(0, 1)}

\* compton_scatter that multiplies by 1 + kappa * (1 - mu) where the formula
\* divides.
ComptonScatter_Gain(energy, mu) ==
    LET kappa == RDiv(energy, One)
        kappa_antimu == RMul(kappa, RSub(One, mu))
    IN  RMul(energy, RAdd(One, kappa_antimu))

\* IncoherentCrossSection::compton_scatter; energies are in units of the
\* electron rest energy M_E * C0 * C0.
ComptonScatter(energy, mu) ==
    LET kappa == RDiv(energy, One)
        kappa_antimu == RMul(kappa, RSub(One, mu))
    IN  RDiv(energy, RAdd(One, kappa_antimu))

\* Experiment::gen_coherent_scatter: the angles it can return.
GenCoherentScatter(e, mat, energy) ==
    IF e.kind = "EndToEnd" THEN {}
    ELSE UNION { {Acos(mu), AngleNeg(Acos(mu))} : mu \in MuDraws }

\* Experiment::gen_incoherent_scatter: the (angle, energy) it can return.
GenIncoherentScatter(e, mat, energy) ==
    IF e.kind = "EndToEnd" THEN {}
    ELSE UNION { { <<Acos(mu), ComptonScatter(energy, mu)>>,
                   <<AngleNeg(Acos(mu)), ComptonScatter(energy, mu)>> } :
                 mu \in MuDraws }

\* Samples of the unit exponential distribution; all are positive.
Exp1Draws == {R(1, 1), R(2, 1)}

(***************************************************************************)
(* propagate (src/mc/experiment.rs): one time step of a photon.  Each      *)
(* operator gives the set of outcomes over the draws of the generator; an  *)
(* outcome is the returned ParticleStatus, the photon after the call, the  *)
(* locals, and whether the call panicked.                                  *)
(***************************************************************************)
Outcome(st, ph, mat, ev, len, panicked) ==
    [status |-> st, photon |-> ph, material |-> mat, event |-> ev,
     scale |-> len, panicked |-> panicked]

\* `scale`: the step lengths the free-path law can give.
FreePathScales(fp) ==
    IF fp.tag = "Fix" THEN {fp.len}
    ELSE LET lambda == RDiv(One, fp.len)
         IN  { RDiv(s, lambda) : s \in Exp1Draws }

\* A step that never notices that the photon left the experiment.
LeftExperiment_Never(e, ph) == FALSE

\* photon.location().x() < exp.x_start()
LeftExperiment(e, ph) == RLt(ph.location.x, XStart(e))

\* An Absorbed arm that ignores the material.
AbsorbedStatus_AlwaysDetected(mat) == "Detected"

\* The arm Event::Absorbed of the match.
AbsorbedStatus(mat) == IF mat = "Detector" THEN "Detected" ELSE "Lost"

\* A match whose CoherentScatter arm also sets the energy, as the
\* IncoherentScatter arm does.
ResolveEvent_CoherentSetsEnergy(e, ph, mat, ev, len) ==
    CASE ev = "Nothing" ->
           { Outcome("Propagating", ph, mat, ev, len, FALSE) }
      [] ev = "Absorbed" ->
           { Outcome(AbsorbedStatus(mat), ph, mat, ev, len, FALSE) }
      [] OTHER ->
           { Outcome("Propagating",
                     [ph EXCEPT !.direction = DirectionRotate(ph.direction, ae[1]),
                                !.energy = ae[2]],
                     mat, ev, len, FALSE) :
             ae \in GenIncoherentScatter(e, mat, ph.energy) }

\* match event { ... }: lines 215-234.
ResolveEvent(e, ph, mat, ev, len) ==
    CASE ev = "Nothing" ->
           { Outcome("Propagating", ph, mat, ev, len, FALSE) }
      [] ev = "Absorbed" ->
           { Outcome(AbsorbedStatus(mat), ph, mat, ev, len, FALSE) }
      [] ev = "CoherentScatter" ->
           { Outcome("Propagating",
                     [ph EXCEPT !.direction = DirectionRotate(ph.direction, angle)],
                     mat, ev, len, FALSE) :
             angle \in GenCoherentScatter(e, mat, ph.energy) }
      [] OTHER ->
           { Outcome("Propagating",
                     [ph EXCEPT !.direction = DirectionRotate(ph.direction, ae[1]),
                                !.energy = ae[2]],
                     mat, ev, len, FALSE) :
             ae \in GenIncoherentScatter(e, mat, ph.energy) }

\* Lines 206-213 without line 212: the event is drawn for the material
\* found before the move.
MoveAndInteract_StaleMaterial(e, ph, mat, len) ==
    LET st == PhotonStep(ph, len)
    IN  IF st.res # "Ok"
        THEN { Outcome("None", ph, mat, "NoEvent", len, TRUE) }
        ELSE IF LeftExperiment(e, st.photon)
        THEN { Outcome("Lost", st.photon, mat, "NoEvent", len, FALSE) }
        ELSE UNION { ResolveEvent(e, st.photon, mat, ev, len) :
                     ev \in GenEvent(e, mat, st.photon.energy) }

\* Lines 206-213, for one value of `scale`.
MoveAndInteract(e, ph, mat, len) ==
    LET st == PhotonStep(ph, len)
    IN  IF st.res # "Ok"
        THEN { Outcome("None", ph, mat, "NoEvent", len, TRUE) }
        ELSE IF LeftExperiment(e, st.photon)
        THEN { Outcome("Lost", st.photon, mat, "NoEvent", len, FALSE) }
        ELSE LET material_2 == GetMaterial(e, st.photon.location)
             IN  UNION { ResolveEvent(e, st.photon, material_2, ev, len) :
                         ev \in GenEvent(e, material_2, st.photon.energy) }

\* propagate(exp, photon, rng).
PropagateOutcomes(e, ph) ==
    LET mat == GetMaterial(e, ph.location)
    IN  UNION { MoveAndInteract(e, ph, mat, len) :
                len \in FreePathScales(GetMeanFreePath(e, mat, ph.energy)) }

\* A loop that keeps propagating a lost photon.
AfterPropagate_ContinueWhenLost(st) ==
    IF st = "Detected" THEN "returned" ELSE "propagate"

\* A loop that returns the photon on every status but Lost.
AfterPropagate_ReturnUnlessLost(st) ==
    IF st = "Lost" THEN "emit" ELSE "returned"

\* match result { ... } of simulate_particle: where the loop goes next.
AfterPropagate(st) ==
    CASE st = "Propagating" -> "propagate"
      [] st = "Detected" -> "returned"
      [] OTHER -> "emit"

(***************************************************************************)
(* Statistics (src/statistics.rs).                                         *)
(***************************************************************************)
\* Sample values offered to push.
SampleValues == {R(-1, 1), R(0, 1), R(1, 2), R(2, 1)}

\* Statistics::new(): Default::default() of every field.
\* new with the mean of no samples taken as 0/0.
StatisticsNew_UndefinedMean ==
    [count |-> 0, mean |-> NaN, sum_of_squares |-> Zero]

\* Statistics::new: Default::default(), the derived all-zero value.
StatisticsNew == [count |-> 0, mean |-> Zero, sum_of_squares |-> Zero]

\* Stat::mul and Stat::sqrt of the blanket impl: d1 * d2 and v.sqrt().
StatMul(d1, d2) == FMul(d1, d2)
StatSqrt(v) == [radicand |-> v]

\* push with the second deviation taken before the mean is updated:
\* sum_of_squares += delta * delta.
StatisticsPush_DeviationBeforeUpdate(s, x) ==
    LET count == s.count + 1
        delta == FSub(x, s.mean)
        mean == FAdd(s.mean, FDiv(delta, AsF64(count)))
    IN  [count |-> count,
         mean |-> mean,
         sum_of_squares |-> FAdd(s.sum_of_squares, StatMul(delta, delta))]

\* push with the mean updated by the whole delta: mean += delta.
StatisticsPush_UndividedDelta(s, x) ==
    LET count == s.count + 1
        delta == FSub(x, s.mean)
        mean == FAdd(s.mean, delta)
        delta_2 == FSub(x, mean)
    IN  [count |-> count,
         mean |-> mean,
         sum_of_squares |-> FAdd(s.sum_of_squares, StatMul(delta, delta_2))]

\* push with the mean updated by delta / (count - 1), the count before
\* this sample.
StatisticsPush_StaleCount(s, x) ==
    LET count == s.count + 1
        delta == FSub(x, s.mean)
        mean == FAdd(s.mean, FDiv(delta, AsF64(s.count)))
        delta_2 == FSub(x, mean)
    IN  [count |-> count,
         mean |-> mean,
         sum_of_squares |-> FAdd(s.sum_of_squares, StatMul(delta, delta_2))]

\* Statistics::push.
StatisticsPush(s, x) ==
    LET count == s.count + 1
        delta == FSub(x, s.mean)
        mean == FAdd(s.mean, FDiv(delta, AsF64(count)))
        delta_2 == FSub(x, mean)
    IN  [count |-> count,
         mean |-> mean,
         sum_of_squares |-> FAdd(s.sum_of_squares, StatMul(delta, delta_2))]

\* extend that starts over from an empty Statistics.
RECURSIVE StatisticsExtend_Reset(_, _)
StatisticsExtend_Reset(s, iter) ==
    IF iter = <<>> THEN StatisticsNew
    ELSE StatisticsPush(StatisticsExtend_Reset(s, SubSeq(iter, 1, Len(iter) - 1)),
                        iter[Len(iter)])

\* extend that stops one point short of the end of the iterator.
RECURSIVE StatisticsExtend_DropLast(_, _)
StatisticsExtend_DropLast(s, iter) ==
    IF Len(iter) <= 1 THEN s
    ELSE StatisticsExtend_DropLast(StatisticsPush(s, Head(iter)), Tail(iter))

\* Extend::extend: for point in iter { self.push(point) }.
RECURSIVE StatisticsExtend(_, _)
StatisticsExtend(s, iter) ==
    IF iter = <<>> THEN s
    ELSE StatisticsExtend(StatisticsPush(s, Head(iter)), Tail(iter))

\* FromIterator::from_iter: new(), then extend(iter).
StatisticsFromIter(iter) == StatisticsExtend(StatisticsNew, iter)

\* Option<T>.
None == [some |-> FALSE]
Some(v) == [some |-> TRUE, val |-> v]
OptionMap(o, F(_)) == IF o.some THEN Some(F(o.val)) ELSE None

\* Statistics::mean.
StatisticsMean(s) == s.mean

\* variance that asks for more than two samples.
StatisticsVariance_NeedsThree(s) ==
    IF s.count > 2
    THEN Some(FDiv(s.sum_of_squares, AsF64(s.count - 1)))
    ELSE None

\* Statistics::variance.
StatisticsVariance(s) ==
    IF s.count > 1
    THEN Some(FDiv(s.sum_of_squares, AsF64(s.count - 1)))
    ELSE None

\* Statistics::standard_deviation.
StatisticsStandardDeviation(s) == OptionMap(StatisticsVariance(s), StatSqrt)

\* Statistics::error_of_mean.
StatisticsErrorOfMean(s) ==
    LET PerCount(v) == FDiv(v, AsF64(s.count))
    IN  OptionMap(OptionMap(StatisticsVariance(s), PerCount), StatSqrt)

TransportIdle ==
    /\ exp = [kind |-> "None"]
    /\ pc = "idle"
    /\ photon = NoPhoton
    /\ status = "None"
    /\ material = "None"
    /\ event = "NoEvent"
    /\ scale = Zero
    /\ entry = "None"
    /\ nLost = 0
    /\ call = "none"

StatsIdle ==
    /\ stats = StatisticsNew
    /\ samples = <<>>
    /\ statsCall = [op |-> "new", len |-> 0]

LibraryIdle ==
    /\ object = [kind |-> "None"]
    /\ args = <<>>
    /\ result = [kind |-> "None"]
    /\ libPc = "idle"

StatsInit ==
    /\ stats = StatisticsNew
    /\ samples = <<>>
    /\ statsCall = [op |-> "new", len |-> 0]
    /\ TransportIdle
    /\ LibraryIdle

\* stats.push(x)
Push(x) ==
    /\ Len(samples) < MaxPush
    /\ stats' = StatisticsPush(stats, x)
    /\ samples' = Append(samples, x)
    /\ statsCall' = [op |-> "push", len |-> 1]
    /\ UNCHANGED <<transportVars, libraryVars>>

\* The iterables handed to extend and from_iter: up to k samples.
Iterables(k) == UNION { [1..n -> SampleValues] : n \in 0..k }

\* stats.extend(iter)
Extend(iter) ==
    /\ stats' = StatisticsExtend(stats, iter)
    /\ samples' = samples \o iter
    /\ statsCall' = [op |-> "extend", len |-> Len(iter)]
    /\ UNCHANGED <<transportVars, libraryVars>>

\* Statistics::from_iter(iter) in the place of Statistics::new().
FromIter(iter) ==
    /\ statsCall.op = "new"
    /\ stats' = StatisticsFromIter(iter)
    /\ samples' = iter
    /\ statsCall' = [op |-> "from_iter", len |-> Len(iter)]
    /\ UNCHANGED <<transportVars, libraryVars>>

StatsNext ==
    \/ \E x \in SampleValues : Push(x)
    \/ \E iter \in Iterables(Min(MaxBulk, MaxPush - Len(samples))) : Extend(iter)
    \/ \E iter \in Iterables(MaxBulk) : FromIter(iter)

SpecStats == StatsInit /\ [][StatsNext]_vars

(***************************************************************************)
(* simulate_particle (src/mc/experiment.rs).                               *)
(***************************************************************************)
SimpleSource(location, energy) ==
    [kind |-> "Simple", location |-> location, energy |-> energy]
EastPointingSource(location, energy) ==
    [kind |-> "East", location |-> location, energy |-> energy]

\* The experiments the model runs.
Experiments ==
    { [kind |-> k, x_start |-> x, source |-> s] :
        k \in {"EndToEnd"}, x \in {R(0, 1), R(10, 1)},
        s \in { SimpleSource(Point(R(-1, 1), Zero), One),
                EastPointingSource(Point(R(-1, 1), Zero), One) } }
    \cup
    { [kind |-> "Collimator", x_start |-> R(1, 2), source |-> s] :
        s \in { SimpleSource(Point(Zero, Zero), One),
                EastPointingSource(Point(Zero, Zero), One) } }

\* The photon is within the part of the experiment the model follows.
InBox(e, ph) ==
    e.kind = "Collimator" =>
        /\ IsFinite(ph.location.y) =>
              RLe(R(-MaxY, 1), ph.location.y) /\ RLe(ph.location.y, R(MaxY, 1))
        /\ ph.energy.d <= MaxEnergyDen

TransportInit ==
    /\ exp \in Experiments
    /\ pc = "emit"
    /\ photon = NoPhoton
    /\ status = "None"
    /\ material = "None"
    /\ event = "NoEvent"
    /\ scale = Zero
    /\ entry = "None"
    /\ nLost = 0
    /\ call = "none"
    /\ StatsIdle
    /\ LibraryIdle

\* A loop that propagates the photon whatever go_to_x returned.
AfterGoToX_IgnoreError(res) == "propagate"

\* if photon.go_to_x(exp.x_start()).is_err() { continue; }
AfterGoToX(res) == IF res = "Ok" THEN "propagate" ELSE "emit"

\* Lines 160-165 for the emitted photon p: move it to the entry of the
\* experiment; on WrongDirection drop it and start over.
Emit(p) ==
    /\ pc = "emit"
    /\ LET r == PhotonGoToX(p, XStart(exp))
       IN  /\ photon' = r.photon
           /\ entry' = r.res
           /\ scale' = GoToXScale(p, XStart(exp))
           /\ pc' = AfterGoToX(r.res)
    /\ status' = "None"
    /\ material' = "None"
    /\ event' = "NoEvent"
    /\ UNCHANGED <<exp, nLost, call, statsVars, libraryVars>>

\* Lines 159-165: one round of the outer loop up to the inner loop.
EmitPhoton == \E p \in SourceEmitPhoton(Source(exp)) : Emit(p)

\* Lines 171-178: one round of the inner loop.
Propagate ==
    /\ pc = "propagate"
    /\ InBox(exp, photon)
    /\ \E o \in PropagateOutcomes(exp, photon) :
         /\ photon' = o.photon
         /\ scale' = o.scale
         /\ IF o.panicked
            THEN /\ pc' = "panicked"
                 /\ UNCHANGED <<status, material, event, nLost>>
            ELSE /\ pc' = AfterPropagate(o.status)
                 /\ status' = o.status
                 /\ material' = o.material
                 /\ event' = o.event
                 /\ nLost' = IF o.status = "Lost"
                             THEN Min(nLost + 1, MaxLost) ELSE nLost
    /\ UNCHANGED <<exp, entry, call, statsVars, libraryVars>>

TransportNext == EmitPhoton \/ Propagate

Spec == TransportInit /\ [][TransportNext]_vars

\* The experiment is the one of the end-to-end property with x_start = 0.
IsEndToEnd == exp.kind = "EndToEnd" /\ XStart(exp) = Zero

(***************************************************************************)
(* The end-to-end experiment under fair random draws: a photon the source  *)
(* can emit is emitted at last if the loop keeps emitting, and a           *)
(* propagating photon keeps being stepped.  In this experiment every step  *)
(* of a photon that entered moves it towards the detector, so fairness     *)
(* between the outcomes of one step adds nothing.                          *)
(***************************************************************************)
FairInit == TransportInit /\ IsEndToEnd

EmittablePhotons == UNION { SourceEmitPhoton(Source(e)) : e \in Experiments }

FairDraws ==
    /\ \A p \in EmittablePhotons : WF_vars(Emit(p))
    /\ WF_vars(Propagate)

FairSpec == FairInit /\ [][TransportNext]_vars /\ FairDraws

(***************************************************************************)
(* A harness for the moving methods of Photon: any sequence of calls of    *)
(* step, go_to_x and go_to_y on a photon, with `scale` the length handed   *)
(* to step and `entry` the Result of the call.                             *)
(***************************************************************************)
\* Lengths handed to step, and targets handed to go_to_x and go_to_y.
StepLengths == {R(-1, 1), R(-1, 2), Zero, R(1, 2), One}
Targets == {R(-1, 1), Zero, One}

\* The harness follows the photon while it is within MaxY of the axes.
InHarnessBox(ph) ==
    /\ IsFinite(ph.location.x) =>
         RLe(R(-MaxY, 1), ph.location.x) /\ RLe(ph.location.x, R(MaxY, 1))
    /\ IsFinite(ph.location.y) =>
         RLe(R(-MaxY, 1), ph.location.y) /\ RLe(ph.location.y, R(MaxY, 1))

PhotonInit ==
    /\ exp = [kind |-> "None"]
    /\ pc = "api"
    /\ photon \in SourceEmitPhoton(SimpleSource(Point(Zero, Zero), One))
    /\ status = "None"
    /\ material = "None"
    /\ event = "NoEvent"
    /\ scale = Zero
    /\ entry = "None"
    /\ nLost = 0
    /\ call = "new"
    /\ StatsIdle
    /\ LibraryIdle

\* The frame of every harness call.
HarnessFrame ==
    UNCHANGED <<exp, pc, status, material, event, nLost, statsVars, libraryVars>>

\* photon.step(length)
CallStep(length) ==
    /\ pc = "api" /\ InHarnessBox(photon)
    /\ LET r == PhotonStep(photon, length)
       IN  photon' = r.photon /\ entry' = r.res
    /\ scale' = length
    /\ call' = "step"
    /\ HarnessFrame

\* photon.go_to_x(x)
CallGoToX(x) ==
    /\ pc = "api" /\ InHarnessBox(photon)
    /\ LET r == PhotonGoToX(photon, x)
       IN  photon' = r.photon /\ entry' = r.res
    /\ scale' = GoToXScale(photon, x)
    /\ call' = "go_to_x"
    /\ HarnessFrame

\* photon.go_to_y(y)
CallGoToY(y) ==
    /\ pc = "api" /\ InHarnessBox(photon)
    /\ LET r == PhotonGoToY(photon, y)
       IN  photon' = r.photon /\ entry' = r.res
    /\ scale' = GoToYScale(photon, y)
    /\ call' = "go_to_y"
    /\ HarnessFrame

PhotonNext ==
    \/ \E length \in StepLengths : CallStep(length)
    \/ \E x \in Targets : CallGoToX(x)
    \/ \E y \in Targets : CallGoToY(y)

SpecPhoton == PhotonInit /\ [][PhotonNext]_vars

(***************************************************************************)
(* Tabulated functions (src/function.rs) and cross-sections with their     *)
(* rejection sampler (src/crosssection.rs).  A call that can panic gives   *)
(* the set of its outcomes: Panic, or Ok(v) for a returned value v.        *)
(***************************************************************************)
Panic == [panicked |-> TRUE]
Ok(v) == [panicked |-> FALSE, val |-> v]

\* The least and the greatest element of a non-empty sequence of numbers.
SeqMin(ys) == CHOOSE y \in {ys[i] : i \in 1..Len(ys)} :
                  \A i \in 1..Len(ys) : RLe(y, ys[i])
SeqMax(ys) == CHOOSE y \in {ys[i] : i \in 1..Len(ys)} :
                  \A i \in 1..Len(ys) : RGe(y, ys[i])

\* A Function with the given points: the struct Function {xdata, ydata,
\* ymin, ymax}.
Function(xdata, ydata) ==
    [xdata |-> xdata, ydata |-> ydata,
     ymin |-> SeqMin(ydata), ymax |-> SeqMax(ydata)]

\* Function::max.
FunctionMax(f) == f.ymax

\* Function::interpolate.
Interpolate(left, right, x) ==
    LET slope == RDiv(RSub(right[2], left[2]), RSub(right[1], left[1]))
    IN  RAdd(left[2], RMul(slope, RSub(x, left[1])))

\* Function::call: the binary search finds a point with this x, or the
\* index iend of the first point to the right of x.
FunctionCall(f, x) ==
    IF IsNaN(x) THEN {Panic}
    ELSE LET n == Len(f.xdata)
             hits == {i \in 1..n : f.xdata[i] = x}
             iend == Cardinality({i \in 1..n : RLt(f.xdata[i], x)})
         IN  IF hits # {} THEN {Ok(f.ydata[i]) : i \in hits}
             ELSE IF iend = 0 \/ iend = n THEN {Panic}
             ELSE {Ok(Interpolate(<<f.xdata[iend], f.ydata[iend]>>,
                                  <<f.xdata[iend + 1], f.ydata[iend + 1]>>,
                                  x))}

\* r_e(): the classical electron radius, the unit of length of the
\* cross-sections.
R_E == One

\* get_x: energy * (mu.acos() / 2).sin(), with sin(acos(mu) / 2) =
\* sqrt((1 - mu) / 2).
GetX(energy, mu) == RMul(energy, RSqrt(RDiv(RSub(One, mu), R(2, 1))))

\* CoherentCrossSection::eval.
CoherentEval(xs, energy, mu) ==
    { IF o.panicked THEN Panic
      ELSE Ok(RMul(RMul(RDiv(RMul(RMul(R_E, R_E), RAdd(One, RMul(mu, mu))),
                             R(2, 1)),
                        o.val),
                   o.val)) :
      o \in FunctionCall(xs.form_factor, GetX(energy, mu)) }

\* CoherentCrossSection::max.
CoherentMax(xs, energy) == CoherentEval(xs, energy, One)

\* IncoherentCrossSection::klein_nishina.
KleinNishina(energy, mu) ==
    LET kappa == RDiv(energy, One)
        kappa_antimu == RMul(kappa, RSub(One, mu))
        alpha_func == RDiv(One, RAdd(One, kappa_antimu))
    IN  RMul(RMul(RMul(RDiv(RMul(R_E, R_E), R(2, 1)), alpha_func), alpha_func),
             RAdd(RAdd(alpha_func, kappa_antimu), RMul(mu, mu)))

\* IncoherentCrossSection::eval.
IncoherentEval(xs, energy, mu) ==
    { IF o.panicked THEN Panic
      ELSE Ok(RMul(KleinNishina(energy, mu), o.val)) :
      o \in FunctionCall(xs.scattering_function, GetX(energy, mu)) }

\* IncoherentCrossSection::max.
IncoherentMax(xs, energy) ==
    {Ok(RMul(KleinNishina(energy, One), FunctionMax(xs.scattering_function)))}

\* CrossSection::eval and CrossSection::max.
CrossSectionEval(xs, energy, mu) ==
    IF xs.kind = "Coherent" THEN CoherentEval(xs, energy, mu)
    ELSE IncoherentEval(xs, energy, mu)

CrossSectionMax(xs, energy) ==
    IF xs.kind = "Coherent" THEN CoherentMax(xs, energy)
    ELSE IncoherentMax(xs, energy)

\* The cross-sections of the model: a form factor falling from 1 to 0 on
\* [0, 1], a scattering function rising from 0 to 1 on [0, 1], and a form
\* factor tabulated on [0, 2], which covers every energy of the model.
CrossSections ==
    { [kind |-> "Coherent",
       form_factor |-> Function(<<Zero, R(1, 2), One>>, <<One, R(1, 2), Zero>>)],
      [kind |-> "Incoherent",
       scattering_function |->
           Function(<<Zero, R(1, 2), One>>, <<Zero, R(1, 2), One>>)],
      [kind |-> "Coherent",
       form_factor |->
           Function(<<Zero, One, R(2, 1)>>, <<One, R(1, 2), R(1, 4)>>)] }

\* Photon energies handed to the sampler.
SamplerEnergies == {R(1, 4), R(1, 2), One, R(2, 1)}

\* distributions::Range::new(low, high): panics unless low < high.
RangeNew(low, high) ==
    IF RLt(low, high) THEN Ok([low |-> low, high |-> high]) ELSE Panic

\* RejectionSampler::new.
RejectionSamplerNew(dist, energy) ==
    { IF m.panicked THEN Panic
      ELSE LET xsection_dist == RangeNew(Zero, m.val)
           IN  IF xsection_dist.panicked THEN Panic
               ELSE Ok([kind |-> "RejectionSampler",
                        dist |-> dist,
                        energy |-> energy,
                        mu_dist |-> RangeNew(R(-1, 1), One).val,
                        xsection_dist |-> xsection_dist.val]) :
      m \in CrossSectionMax(dist, energy) }

\* Samples of a Range [low, high): low and points up to high.  Of the
\* range [-1, 1) these are -1, -1/8, 1/2 and 7/8, the values 1 - 2 q^2 of mu
\* whose half-angle sine q is 1, 3/4, 1/2 and 1/4.
RangeDrawsOf(range) ==
    { RAdd(range.low, RMul(f, RSub(range.high, range.low))) :
      f \in {Zero, R(7, 16), R(3, 4), R(15, 16)} }

\* The test of gen_mu with <= in the place of <.
Accepts_OrEqual(random_xsection, max_xsection) ==
    RLe(random_xsection, max_xsection)

\* gen_mu: if random_xsection < max_xsection { return random_mu }.
Accepts(random_xsection, max_xsection) == RLt(random_xsection, max_xsection)

SamplerInit == TransportIdle /\ StatsIdle /\ LibraryIdle

\* let sampler = RejectionSampler::new(dist, energy)
SamplerNew(dist, energy) ==
    /\ libPc = "idle"
    /\ \E o \in RejectionSamplerNew(dist, energy) :
         IF o.panicked
         THEN /\ libPc' = "panicked"
              /\ object' = [kind |-> "None", dist |-> dist, energy |-> energy]
         ELSE /\ libPc' = "ready"
              /\ object' = o.val
    /\ UNCHANGED <<args, result, transportVars, statsVars>>

\* One round of the loop of gen_mu, the first one of a call or a later one.
GenMuRound(random_mu, random_xsection) ==
    /\ libPc \in {"ready", "loop", "returned"}
    /\ object.kind = "RejectionSampler"
    /\ \E o \in CrossSectionEval(object.dist, object.energy, random_mu) :
         IF o.panicked
         THEN /\ libPc' = "panicked"
              /\ args' = [random_mu |-> random_mu,
                          random_xsection |-> random_xsection]
              /\ result' = [kind |-> "None"]
         ELSE /\ args' = [random_mu |-> random_mu,
                          random_xsection |-> random_xsection,
                          max_xsection |-> o.val]
              /\ IF Accepts(random_xsection, o.val)
                 THEN libPc' = "returned" /\ result' = [kind |-> "Mu", val |-> random_mu]
                 ELSE libPc' = "loop" /\ result' = [kind |-> "None"]
    /\ UNCHANGED <<object, transportVars, statsVars>>

\* sampler.gen_mu(rng), round by round.
GenMu ==
    /\ object.kind = "RejectionSampler"
    /\ \E random_mu \in RangeDrawsOf(object.mu_dist),
          random_xsection \in RangeDrawsOf(object.xsection_dist) :
          GenMuRound(random_mu, random_xsection)

SamplerNext ==
    \/ \E dist \in CrossSections, energy \in SamplerEnergies :
          SamplerNew(dist, energy)
    \/ GenMu

SpecSampler == SamplerInit /\ [][SamplerNext]_vars

(***************************************************************************)
(* Direction in f64 (src/mc/geometry.rs): construction and rotation with   *)
(* every operation rounded, under a harness that calls them in sequence.   *)
(***************************************************************************)
\* n/d (n, d > 0) scaled by a power of four into [4^(p-1), 4^p): the scaled
\* quotient and the exponent e with sqrt(n0/d0) = sqrt(n/d) * 2^e.
RECURSIVE SqrtScaled(_, _, _)
SqrtScaled(n, d, e) ==
    IF n >= (4 ^ MantissaBits) * d THEN SqrtScaled(n, 4 * d, e + 1)
    ELSE IF n < (4 ^ (MantissaBits - 1)) * d THEN SqrtScaled(4 * n, d, e - 1)
    ELSE [n |-> n, d |-> d, e |-> e]

\* The integer nearest to sqrt(n/d), a tie going to the even one.
RoundedRoot(n, d) ==
    LET m == ISqrt(n \div d)
        c == (2 * m + 1) * (2 * m + 1)
    IN  IF c * d < 4 * n \/ (c * d = 4 * n /\ m % 2 = 1) THEN m + 1 ELSE m

\* f64::sqrt: the floating-point number nearest to the square root of a.
FSqrt(a) ==
    IF IsNaN(a) \/ a.n < 0 THEN NaN
    ELSE IF a.d = 0 \/ a.n = 0 THEN a
    ELSE The({ Scale2(RoundedRoot(q.n, q.d), q.e) :
               q \in {SqrtScaled(a.n, a.d, 0)} })

\* f64::cos and f64::sin of the angle [c, s].
CosF64(angle) == Fl(Cos(angle))
SinF64(angle) == Fl(Sin(angle))

\* Direction::new in f64.
DirectionNewF64(dx, dy) ==
    LET len == FSqrt(FAdd(FMul(dx, dx), FMul(dy, dy)))
    IN  [dx |-> FDiv(dx, len), dy |-> FDiv(dy, len)]

\* Direction::from_angle in f64.
DirectionFromAngleF64(angle) == [dx |-> CosF64(angle), dy |-> SinF64(angle)]

\* impl Rand for Direction in f64, for the draws dx and b of the generator.
DirectionRandF64(dx, b) ==
    LET dy == FMul(FSqrt(FSub(One, FMul(dx, dx))),
                   IF b THEN One ELSE RNeg(One))
    IN  DirectionNewF64(dx, dy)

\* Direction::rotate computing dy from the already rotated dx.
DirectionRotateF64_InPlace(d, angle) ==
    LET dx == FSub(FMul(d.dx, CosF64(angle)), FMul(d.dy, SinF64(angle)))
    IN  [dx |-> dx,
         dy |-> FAdd(FMul(dx, SinF64(angle)), FMul(d.dy, CosF64(angle)))]

\* Direction::rotate in f64.
DirectionRotateF64(d, angle) ==
    LET dx == FSub(FMul(d.dx, CosF64(angle)), FMul(d.dy, SinF64(angle)))
        dy == FAdd(FMul(d.dx, SinF64(angle)), FMul(d.dy, CosF64(angle)))
    IN  [dx |-> dx, dy |-> dy]

\* The most rotate calls the harness makes on one Direction.
MaxRotate == 2

\* Vectors handed to Direction::new.
Vectors ==
    {<<R(1, 1), R(0, 1)>>, <<R(1, 1), R(1, 1)>>, <<R(3, 1), R(4, 1)>>,
     <<R(-1, 1), R(2, 1)>>, <<R(1, 1), R(-3, 1)>>, <<R(0, 1), R(-2, 1)>>,
     <<R(0, 1), R(0, 1)>>}

\* Angles handed to from_angle and rotate, each with its negative.
Angles ==
    LET half == {[c |-> R(3, 5), s |-> R(4, 5)], [c |-> R(4, 5), s |-> R(3, 5)],
                 [c |-> R(0, 1), s |-> R(1, 1)], [c |-> R(-1, 1), s |-> R(0, 1)],
                 [c |-> R(5, 13), s |-> R(12, 13)],
                 [c |-> R(-3, 5), s |-> R(4, 5)]}
    IN  half \cup { AngleNeg(a) : a \in half }

\* Values rng.gen_range(-1.0, 1.0) can return, as f64.
RangeDrawsF64 ==
    LET draws == { Fl(x) : x \in RangeDraws } IN draws

DirectionInit == TransportIdle /\ StatsIdle /\ LibraryIdle

\* The harness holds the Direction in object, the angles of the rotate calls
\* made on it in args, and the values it had before each of them in result.
Constructed(d) ==
    /\ libPc = "idle"
    /\ libPc' = "constructed"
    /\ object' = [kind |-> "Direction", dx |-> d.dx, dy |-> d.dy]
    /\ args' = <<>>
    /\ result' = [kind |-> "History", before |-> <<>>]
    /\ UNCHANGED <<transportVars, statsVars>>

\* let mut d = Direction::new(dx, dy)
CallNew(dx, dy) == Constructed(DirectionNewF64(dx, dy))

\* let mut d = Direction::from_angle(angle)
CallFromAngle(angle) == Constructed(DirectionFromAngleF64(angle))

\* let mut d: Direction = rng.gen()
CallRand(dx, b) == Constructed(DirectionRandF64(dx, b))

\* d.rotate(angle)
CallRotate(angle) ==
    /\ libPc \in {"constructed", "rotated"}
    /\ object.kind = "Direction"
    /\ Len(args) < MaxRotate
    /\ libPc' = "rotated"
    /\ LET d == DirectionRotateF64(object, angle)
       IN  object' = [kind |-> "Direction", dx |-> d.dx, dy |-> d.dy]
    /\ args' = Append(args, angle)
    /\ result' = [kind |-> "History", before |-> Append(result.before, object)]
    /\ UNCHANGED <<transportVars, statsVars>>

DirectionNext ==
    \/ \E v \in Vectors : CallNew(v[1], v[2])
    \/ \E angle \in Angles : CallFromAngle(angle)
    \/ \E dx \in RangeDrawsF64, b \in BOOLEAN : CallRand(dx, b)
    \/ \E angle \in Angles : CallRotate(angle)

SpecDirection == DirectionInit /\ [][DirectionNext]_vars

(***************************************************************************)
(* IncoherentCrossSection::compton_scatter in f64 (src/crosssection.rs),   *)
(* called on its own.  Energies are in units of M_E * C0 * C0.             *)
(***************************************************************************)
\* M_E * C0 * C0, the rest energy of the electron.
RestEnergy == One

\* compton_scatter with 1.0 + mu in place of 1.0 - mu.
ComptonScatterF64_PlusMu(energy, mu) ==
    LET kappa == FDiv(energy, RestEnergy)
        kappa_antimu == FMul(kappa, FAdd(One, mu))
    IN  FDiv(energy, FAdd(One, kappa_antimu))

\* IncoherentCrossSection::compton_scatter in f64.
ComptonScatterF64(energy, mu) ==
    LET kappa == FDiv(energy, RestEnergy)
        kappa_antimu == FMul(kappa, FSub(One, mu))
    IN  FDiv(energy, FAdd(One, kappa_antimu))

\* Energies and cosines handed to compton_scatter, all of them f64 numbers.
ComptonEnergies ==
    {R(1, 4), R(1, 2), R(3, 4), R(1, 1), R(3, 2), R(2, 1), R(3, 1), R(5, 1),
     R(6, 1), R(7, 1), R(1, 8), R(4, 1)}
ComptonCosines ==
    {R(-1, 1), R(-3, 4), R(-1, 2), R(-1, 4), R(0, 1), R(1, 4), R(1, 2),
     R(3, 4), R(7, 8), R(1, 1)}

ComptonInit == TransportIdle /\ StatsIdle /\ LibraryIdle

\* let e = IncoherentCrossSection::compton_scatter(energy, mu)
CallComptonScatter(energy, mu) ==
    /\ libPc \in {"idle", "returned"}
    /\ libPc' = "returned"
    /\ args' = [energy |-> energy, mu |-> mu]
    /\ result' = [kind |-> "Energy", val |-> ComptonScatterF64(energy, mu)]
    /\ UNCHANGED <<object, transportVars, statsVars>>

ComptonNext ==
    \E energy \in ComptonEnergies, mu \in ComptonCosines :
        CallComptonScatter(energy, mu)

SpecCompton == ComptonInit /\ [][ComptonNext]_vars

(***************************************************************************)
(* Monte-Carlo integration (src/integrate.rs): integrate() builds an       *)
(* Integrate, turns it into an iterator of samples, takes sample_size of   *)
(* them and collects them into a Statistics.                               *)
(***************************************************************************)
\* The largest sample_size handed to integrate.
MaxSampleSize == 3

\* The integrands f: FnMut(f64) -> f64 handed to integrate.
Integrands == {"one", "identity", "square"}

\* (self.func)(x)
Apply(f, x) ==
    IF f = "one" THEN One
    ELSE IF f = "identity" THEN x
    ELSE FMul(x, x)

\* The ranges a..b handed to integrate; the last two are empty.
Ranges ==
    {[start |-> Zero, end |-> One], [start |-> Zero, end |-> R(2, 1)],
     [start |-> R(-1, 1), end |-> One], [start |-> R(1, 2), end |-> R(2, 1)],
     [start |-> One, end |-> One], [start |-> R(2, 1), end |-> Zero]}

\* Integrate::new.
IntegrateNew(f, range) ==
    LET x_sample == RangeNew(range.start, range.end)
    IN  IF x_sample.panicked THEN Panic
        ELSE Ok([kind |-> "Integrate",
                 func |-> f,
                 width |-> FSub(range.end, range.start),
                 x_sample |-> x_sample.val])

\* Values self.x_sample.sample(rng) can return: f64 numbers of [low, high).
SampleDraws(x_sample) ==
    LET points == { Fl(RAdd(x_sample.low,
                            RMul(f, RSub(x_sample.high, x_sample.low)))) :
                    f \in {Zero, R(1, 4), R(3, 4)} }
    IN  { x \in points : RLe(x_sample.low, x) /\ RLt(x, x_sample.high) }

\* Integrate::sample, for the draw x of self.x_sample.
IntegrateSample(integrate, x) ==
    FMul(Apply(integrate.func, x), integrate.width)

\* Take::next asking the sample iterator once more after n items.
TakeHasNext_OneMore(taken, n) == taken <= n

\* Take::next of .take(n): whether the sample iterator is asked again after
\* `taken` items.
TakeHasNext(taken, n) == taken < n

IntegrateInit == TransportIdle /\ StatsIdle /\ LibraryIdle

\* integrate(f, range, sample_size, rng) up to the first item of collect():
\* Integrate::new(f, range).into_sample_iter(rng).take(sample_size) and the
\* empty Statistics of from_iter.
CallIntegrate(f, range, sample_size) ==
    /\ libPc = "idle"
    /\ args' = [f |-> f, range |-> range, sample_size |-> sample_size,
                drawn |-> <<>>]
    /\ result' = [kind |-> "None"]
    /\ \E o \in {IntegrateNew(f, range)} :
         IF o.panicked
         THEN /\ libPc' = "panicked"
              /\ object' = [kind |-> "None"]
              /\ UNCHANGED statsVars
         ELSE /\ libPc' = "collecting"
              /\ object' = o.val
              /\ stats' = StatisticsNew
              /\ samples' = <<>>
              /\ statsCall' = [op |-> "new", len |-> 0]
    /\ UNCHANGED transportVars

\* One item of collect(): Take::next asks the sample iterator, whose next()
\* is Some(integrate.sample(rng)), and extend pushes the item.
SampleIterNext(x) ==
    /\ libPc = "collecting"
    /\ TakeHasNext(Len(args.drawn), args.sample_size)
    /\ LET item == IntegrateSample(object, x)
       IN  /\ stats' = StatisticsPush(stats, item)
           /\ samples' = Append(samples, item)
    /\ statsCall' = [op |-> "push", len |-> 1]
    /\ args' = [args EXCEPT !.drawn = Append(@, x)]
    /\ UNCHANGED <<object, result, libPc, transportVars>>

\* Take::next returns None: collect() ends and integrate returns the
\* Statistics.
IntegrateReturn ==
    /\ libPc = "collecting"
    /\ ~TakeHasNext(Len(args.drawn), args.sample_size)
    /\ libPc' = "returned"
    /\ result' = [kind |-> "Statistics", val |-> stats]
    /\ UNCHANGED <<object, args, transportVars, statsVars>>

IntegrateNext ==
    \/ \E f \in Integrands, range \in Ranges, sample_size \in 0..MaxSampleSize :
          CallIntegrate(f, range, sample_size)
    \/ \E x \in (IF object.kind = "Integrate"
                 THEN SampleDraws(object.x_sample) ELSE {}) :
          SampleIterNext(x)
    \/ IntegrateReturn

SpecIntegrate == IntegrateInit /\ [][IntegrateNext]_vars

(***************************************************************************)
(* Function (src/function.rs) under a harness that builds a table point by *)
(* point, scales it and evaluates it.                                      *)
(***************************************************************************)
\* The most points of a table and the most scale calls made on it.
MaxPoints == 3
MaxScale == 1

\* Function::new.
FunctionNew(x, y) == [xdata |-> <<x>>, ydata |-> <<y>>, ymin |-> y, ymax |-> y]

\* Function::domain: the Range {start, end} of the first and the last x.
FunctionDomain(f) == [start |-> f.xdata[1], end |-> f.xdata[Len(f.xdata)]]

\* Function::min.
FunctionMin(f) == f.ymin

\* Function::push that leaves ymin and ymax as they are.
FunctionPush_StaleBounds(f, x, y) ==
    IF IsNaN(x) \/ IsNaN(y) \/ RLt(x, FunctionDomain(f).end) THEN Panic
    ELSE Ok([xdata |-> Append(f.xdata, x), ydata |-> Append(f.ydata, y),
             ymin |-> f.ymin, ymax |-> f.ymax])

\* Function::push: Panic when x is less than the last x (or a number is not
\* comparable), else the function with the point added.
FunctionPush(f, x, y) ==
    IF IsNaN(x) \/ IsNaN(y) \/ RLt(x, FunctionDomain(f).end) THEN Panic
    ELSE Ok([xdata |-> Append(f.xdata, x), ydata |-> Append(f.ydata, y),
             ymin |-> IF RLt(y, f.ymin) THEN y ELSE f.ymin,
             ymax |-> IF RLt(y, f.ymin) THEN f.ymax
                      ELSE IF RGt(y, f.ymax) THEN y ELSE f.ymax])

\* is_sorted: no number is greater than its right neighbour.
IsSorted(nums) == \A i \in 1..(Len(nums) - 1) : ~RGt(nums[i], nums[i + 1])

\* Function::scale_x.
FunctionScaleX(f, factor) ==
    LET xdata == [i \in 1..Len(f.xdata) |-> RMul(factor, f.xdata[i])]
    IN  IF ~IsSorted(xdata) THEN Panic
        ELSE Ok([xdata |-> xdata, ydata |-> f.ydata,
                 ymin |-> f.ymin, ymax |-> f.ymax])

\* Function::scale_y.
FunctionScaleY(f, factor) ==
    LET ydata == [i \in 1..Len(f.ydata) |-> RMul(factor, f.ydata[i])]
    IN  Ok([xdata |-> f.xdata, ydata |-> ydata,
            ymin |-> SeqMin(ydata), ymax |-> SeqMax(ydata)])

\* The numbers handed to new, push, scale_x, scale_y and call.
TableXs == {Zero, One, R(2, 1)}
TableYs == {Zero, R(1, 2), One}
ScaleFactors == {R(-1, 1), R(2, 1)}
CallXs == {R(-1, 1), Zero, R(1, 2), One, R(3, 2), R(2, 1), R(3, 1)}

FunctionInit == TransportIdle /\ StatsIdle /\ LibraryIdle

\* The Function the harness holds in object.
Held == [xdata |-> object.xdata, ydata |-> object.ydata,
         ymin |-> object.ymin, ymax |-> object.ymax]

\* The harness keeps the function o.val of a returned call, or stops at a
\* panic; for_mut tells a &mut self method, which leaves the function as it
\* was when it panics before writing, from one that consumes self.
Keep(o, for_mut) ==
    IF o.panicked
    THEN /\ libPc' = "panicked"
         /\ object' = IF for_mut THEN object ELSE [kind |-> "None"]
    ELSE /\ libPc' = "held"
         /\ object' = [kind |-> "Function", xdata |-> o.val.xdata,
                       ydata |-> o.val.ydata, ymin |-> o.val.ymin,
                       ymax |-> o.val.ymax]

\* let mut f = Function::new(x, y)
CallFunctionNew(x, y) ==
    /\ libPc = "idle"
    /\ Keep(Ok(FunctionNew(x, y)), FALSE)
    /\ args' = [op |-> "new", x |-> x, y |-> y, scaled |-> 0]
    /\ result' = [kind |-> "None"]
    /\ UNCHANGED <<transportVars, statsVars>>

\* f.push(x, y)
CallPush(x, y) ==
    /\ libPc = "held"
    /\ Len(object.xdata) < MaxPoints
    /\ Keep(FunctionPush(Held, x, y), TRUE)
    /\ args' = [op |-> "push", x |-> x, y |-> y, scaled |-> args.scaled]
    /\ result' = [kind |-> "None"]
    /\ UNCHANGED <<transportVars, statsVars>>

\* let f = f.scale_x(factor)
CallScaleX(factor) ==
    /\ libPc = "held"
    /\ args.scaled < MaxScale
    /\ Keep(FunctionScaleX(Held, factor), FALSE)
    /\ args' = [op |-> "scale_x", x |-> factor, y |-> factor,
                scaled |-> args.scaled + 1]
    /\ result' = [kind |-> "None"]
    /\ UNCHANGED <<transportVars, statsVars>>

\* let f = f.scale_y(factor)
CallScaleY(factor) ==
    /\ libPc = "held"
    /\ args.scaled < MaxScale
    /\ Keep(FunctionScaleY(Held, factor), FALSE)
    /\ args' = [op |-> "scale_y", x |-> factor, y |-> factor,
                scaled |-> args.scaled + 1]
    /\ result' = [kind |-> "None"]
    /\ UNCHANGED <<transportVars, statsVars>>

\* let y = f.call(x)
CallCall(x) ==
    /\ libPc = "held"
    /\ \E o \in FunctionCall(Held, x) :
         /\ libPc' = IF o.panicked THEN "panicked" ELSE "held"
         /\ result' = IF o.panicked THEN [kind |-> "Panic"]
                      ELSE [kind |-> "Y", val |-> o.val]
    /\ args' = [op |-> "call", x |-> x, y |-> x, scaled |-> args.scaled]
    /\ UNCHANGED <<object, transportVars, statsVars>>

FunctionNext ==
    \/ \E x \in TableXs, y \in TableYs : CallFunctionNew(x, y)
    \/ \E x \in TableXs, y \in TableYs : CallPush(x, y)
    \/ \E factor \in ScaleFactors : CallScaleX(factor)
    \/ \E factor \in ScaleFactors : CallScaleY(factor)
    \/ \E x \in CallXs : CallCall(x)

SpecFunction == FunctionInit /\ [][FunctionNext]_vars

(***************************************************************************)
(* choose and choose_pb_process (src/bin/collimator.rs): the categorical   *)
(* draw of the collimator, in f64.                                         *)
(***************************************************************************)
\* The most weights handed to choose.
MaxWeights == 3

\* weights.iter().sum(): the f64 sum from the left, starting at 0.0.
RECURSIVE SumF64(_)
SumF64(weights) ==
    IF weights = <<>> THEN Zero
    ELSE FAdd(SumF64(SubSeq(weights, 1, Len(weights) - 1)),
              weights[Len(weights)])

\* The test of choose with <= in the place of <.
Below_OrEqual(choice, threshold) == RLe(choice, threshold)

\* if choice < threshold { return i; }
Below(choice, threshold) == RLt(choice, threshold)

\* The loop of choose from the i-th weight on (i counts from 1 here), with
\* the threshold accumulated so far: Ok(index) for a return, Panic for
\* unreachable!().
RECURSIVE ChooseScan(_, _, _, _)
ChooseScan(weights, choice, i, threshold) ==
    IF i > Len(weights) THEN Panic
    ELSE LET t == FAdd(threshold, weights[i])
         IN  IF Below(choice, t) THEN Ok(i - 1)
             ELSE ChooseScan(weights, choice, i + 1, t)

\* choose, for the draw `choice` of rng.gen_range(0.0, sum).
Choose(weights, choice) == ChooseScan(weights, choice, 1, Zero)

\* The match of choose_pb_process on the index choose returns.
PbProcess(index) ==
    CASE index = 0 -> "CoherentScatter"
      [] index = 1 -> "IncoherentScatter"
      [] index = 2 -> "Absorbed"
      [] OTHER -> "unreachable"

\* The weights handed to choose: 1/8 is lost when added to 3.
Weights == {Zero, R(1, 8), R(1, 2), One, R(3, 1)}
WeightLists == UNION { [1..k -> Weights] : k \in 1..MaxWeights }

\* Values rng.gen_range(0.0, sum) can return: f64 numbers of [0, sum).
ChoiceDraws(sum) ==
    LET points == { Fl(RMul(f, sum)) :
                    f \in {Zero, R(1, 4), R(3, 4), R(15, 16)} }
    IN  { u \in points : RLe(Zero, u) /\ RLt(u, sum) }

ChooseInit == TransportIdle /\ StatsIdle /\ LibraryIdle

\* let i = choose(rng, &weights), with choose_pb_process's match on it when
\* there are three weights; gen_range panics unless 0.0 < sum.
CallChoose(weights) ==
    /\ libPc = "idle"
    /\ LET range == RangeNew(Zero, SumF64(weights))
       IN  IF range.panicked
           THEN /\ libPc' = "panicked"
                /\ args' = [weights |-> weights]
                /\ result' = [kind |-> "Panic"]
           ELSE \E choice \in ChoiceDraws(range.val.high) :
                  LET o == Choose(weights, choice)
                  IN  /\ args' = [weights |-> weights, choice |-> choice]
                      /\ IF o.panicked
                         THEN /\ libPc' = "panicked"
                              /\ result' = [kind |-> "Panic"]
                         ELSE /\ libPc' = "returned"
                              /\ result' = [kind |-> "Index", val |-> o.val,
                                            event |-> PbProcess(o.val)]
    /\ UNCHANGED <<object, transportVars, statsVars>>

ChooseNext == \E weights \in WeightLists : CallChoose(weights)

SpecChoose == ChooseInit /\ [][ChooseNext]_vars

(***************************************************************************)
(* Statistics with its query methods called between the updates            *)
(* (src/statistics.rs).                                                    *)
(***************************************************************************)
\* The methods that take &self.
QueryOps == {"mean", "variance", "standard_deviation", "error_of_mean"}

\* What a query returns.
QueryResult(s, op) ==
    CASE op = "mean" -> Some(StatisticsMean(s))
      [] op = "variance" -> StatisticsVariance(s)
      [] op = "standard_deviation" -> StatisticsStandardDeviation(s)
      [] op = "error_of_mean" -> StatisticsErrorOfMean(s)

\* stats.mean(), stats.variance(), stats.standard_deviation(),
\* stats.error_of_mean(): the receiver is &self and the fields are plain
\* values, so the object is what it was; the value goes to the caller.
Query(op) ==
    /\ stats' = stats
    /\ samples' = samples
    /\ statsCall' = [op |-> op, len |-> 0, value |-> QueryResult(stats, op)]
    /\ UNCHANGED <<transportVars, libraryVars>>

StatsQueryNext ==
    \/ \E x \in SampleValues : Push(x)
    \/ \E iter \in Iterables(Min(MaxBulk, MaxPush - Len(samples))) : Extend(iter)
    \/ \E iter \in Iterables(MaxBulk) : FromIter(iter)
    \/ \E op \in QueryOps : Query(op)

SpecStatsQuery == StatsInit /\ [][StatsQueryNext]_vars

(***************************************************************************)
(* Histogram (src/histogram.rs).  A histogram is the struct {range, edges, *)
(* weights}; bins are counted from 0 as in the code, sequences from 1.     *)
(***************************************************************************)
\* The largest nbins handed to Histogram::new.
MaxBins == 2
\* The largest number of fill calls on one histogram.
MaxFills == 3

\* Histogram::new.
HistogramNew(nbins, low, high) ==
    LET nedges == nbins + 1
        bin_width == FDiv(FSub(high, low), AsF64(nbins))
    IN  [range |-> <<low, high>>,
         edges |-> [k \in 1..nedges |->
                      FAdd(low, FMul(bin_width, AsF64(k - 1)))],
         weights |-> [k \in 1..nbins |-> 0]]

\* The loop of find_bin over edges.windows(2).enumerate(), from window i on:
\* the first i whose window contains x, unreachable!() past the last window.
RECURSIVE FindBinScan(_, _, _)
FindBinScan(edges, x, i) ==
    IF i + 2 > Len(edges) THEN Panic
    ELSE IF Contains(<<edges[i + 1], edges[i + 2]>>, x) THEN Ok(Some(i))
    ELSE FindBinScan(edges, x, i + 1)

\* Histogram::find_bin.
HistogramFindBin(h, x) ==
    IF ~Contains(h.range, x) THEN Ok(None)
    ELSE FindBinScan(h.edges, x, 0)

\* Histogram::fill_by: the histogram afterwards, or the panic of find_bin.
HistogramFillBy(h, x, weight) ==
    LET found == HistogramFindBin(h, x)
    IN  IF found.panicked THEN Panic
        ELSE IF found.val.some
        THEN Ok([h EXCEPT !.weights[found.val.val + 1] = @ + weight])
        ELSE Ok(h)

\* Histogram::fill.
HistogramFill(h, x) == HistogramFillBy(h, x, 1)

\* The limits handed to Histogram::new and the values handed to fill.
HistogramLows == {R(0, 1), R(1, 2)}
HistogramHighs == {R(1, 1), R(2, 1), R(9, 1)}
FillValues == {R(-1, 1), R(0, 1), R(1, 2), R(1, 1), R(3, 2), R(2, 1),
               R(9, 1), NaN}

HistogramInit == TransportIdle /\ StatsIdle /\ LibraryIdle

\* let mut hist = Histogram::new(nbins, low, high)
CallHistogramNew(nbins, low, high) ==
    /\ libPc = "idle"
    /\ libPc' = "returned"
    /\ object' = [kind |-> "Histogram", hist |-> HistogramNew(nbins, low, high)]
    /\ args' = [op |-> "new", xs |-> <<>>]
    /\ result' = [kind |-> "Histogram"]
    /\ UNCHANGED <<transportVars, statsVars>>

\* hist.fill(x); args.xs collects the values of all the fill calls made on
\* this histogram.
CallFill(x) ==
    /\ libPc = "returned"
    /\ object.kind = "Histogram"
    /\ Len(args.xs) < MaxFills
    /\ LET r == HistogramFill(object.hist, x)
       IN  IF r.panicked
           THEN /\ libPc' = "panicked"
                /\ result' = [kind |-> "Panic"]
                /\ UNCHANGED object
           ELSE /\ libPc' = "returned"
                /\ result' = [kind |-> "Unit"]
                /\ object' = [object EXCEPT !.hist = r.val]
    /\ args' = [op |-> "fill", xs |-> Append(args.xs, x)]
    /\ UNCHANGED <<transportVars, statsVars>>

HistogramNext ==
    \/ \E nbins \in 0..MaxBins, low \in HistogramLows, high \in HistogramHighs :
         CallHistogramNew(nbins, low, high)
    \/ \E x \in FillValues : CallFill(x)

SpecHistogram == HistogramInit /\ [][HistogramNext]_vars

(***************************************************************************)
(* Properties.                                                             *)
(***************************************************************************)
\* C1: in the end-to-end experiment (x_start = 0, Detector at x >= 10 with
\* Fix(0), Air with Exp(1), Absorbed only in the Detector) every photon
\* simulate_particle returns has location.x >= 10.
C1_ReturnedPhotonInDetector ==
    (IsEndToEnd /\ pc = "returned") => RGe(photon.location.x, R(10, 1))

\* A photon has been returned by the end-to-end experiment.
C1_Witness ==
    IsEndToEnd /\ pc = "returned" /\ status = "Detected"

\* C2: a step classifies the photon Detected iff the drawn event is
\* Absorbed and the material at its location is Detector; Absorbed in any
\* other material classifies it Lost; a photon is returned only after such a
\* step.
C2_DetectedIffAbsorbedInDetector ==
    /\ (status = "Detected") <=> (event = "Absorbed" /\ material = "Detector")
    /\ (event = "Absorbed" /\ material # "Detector") => status = "Lost"
    /\ pc = "returned" =>
         /\ event = "Absorbed"
         /\ material = "Detector"
         /\ GetMaterial(exp, photon.location) = "Detector"

\* A photon was absorbed outside the detector, in a run where photons can
\* also be detected.
C2_Witness ==
    event = "Absorbed" /\ material = "Absorber" /\ status = "Lost"

\* C3: when the free-path law of the photon's material is Fix(0), the
\* transport step completes without failing, leaves the location unchanged
\* and draws and resolves the event at that location.
C3_FixedZeroStepIsLegal ==
    [][ ( /\ pc = "propagate"
          /\ GetMeanFreePath(exp, GetMaterial(exp, photon.location),
                             photon.energy) = Fix(Zero) )
        => ( /\ pc' # "panicked"
             /\ photon'.location = photon.location
             /\ event' # "NoEvent" ) ]_vars

\* C4: Photon::step with a negative or zero length returns WrongDirection
\* and leaves location, direction and energy of the photon as they were.
C4_NonPositiveStepFails ==
    [][ RLe(scale', Zero) => (entry' = "WrongDirection" /\ photon' = photon) ]_vars

\* step was called with a non-positive length on a photon that had moved.
C4_Witness ==
    /\ call = "step" /\ RLe(scale, Zero) /\ entry = "WrongDirection"
    /\ photon.location # Point(Zero, Zero)

\* C5: if after the move of a transport step the photon's x is less than
\* x_start, the step returns Lost at once: no event is drawn, and direction
\* and energy stay as they were.
C5_LeftOfStartIsLostAtOnce ==
    [][ ( /\ pc = "propagate" /\ pc' # "panicked"
          /\ RLt(photon'.location.x, XStart(exp)) )
        => ( /\ status' = "Lost"
             /\ event' = "NoEvent"
             /\ photon'.direction = photon.direction
             /\ photon'.energy = photon.energy
             /\ pc' = "emit" ) ]_vars

\* A photon was classified Lost because it moved to the left of x_start,
\* in an experiment whose material there would have drawn an event.
C5_Witness ==
    /\ status = "Lost" /\ event = "NoEvent"
    /\ RLt(photon.location.x, XStart(exp))
    /\ GenEvent(exp, GetMaterial(exp, photon.location), photon.energy) # {}

\* C6: a Lost photon is discarded and the next trial starts with a photon
\* freshly emitted by the source (source location and energy, new
\* direction) and moved to the entry; nothing of the lost photon carries
\* over, and no step is applied to a photon once it is Lost or Detected.
C6_LostRestartsWithFreshPhoton ==
    [][ /\ status = "Lost" =>
             /\ pc = "emit"
             /\ status' = "None" /\ material' = "None" /\ event' = "NoEvent"
             /\ photon'.energy = Source(exp).energy
             /\ \E p \in SourceEmitPhoton(Source(exp)) :
                  /\ p.location = Source(exp).location
                  /\ photon' = PhotonGoToX(p, XStart(exp)).photon
        /\ status = "Detected" => FALSE ]_vars

\* After a photon was lost, a fresh
\* photon has entered the experiment.
C6_Witness ==
    /\ nLost >= 1
    /\ pc = "propagate" /\ status = "None"
    /\ photon.energy = Source(exp).energy
    /\ photon.location.x = XStart(exp)

\* C7: when go_to_x of a freshly emitted photon fails with WrongDirection,
\* simulate_particle does not fail: the photon is dropped where it was
\* emitted, no transport step runs on it, and the loop emits again.
C7_FailedEntryRetries ==
    entry = "WrongDirection" =>
        /\ pc = "emit"
        /\ status = "None" /\ event = "NoEvent"
        /\ photon.location = Source(exp).location

\* A photon emitted away from the experiment has been dropped.
C7_Witness ==
    /\ entry = "WrongDirection" /\ pc = "emit"
    /\ RLt(photon.direction.dx, Zero)
    /\ photon.location = Source(exp).location

\* C8: if a Detected outcome is reachable from the source then, under fair
\* random draws, simulate_particle eventually returns a photon.
C8_EventuallyReturns == <>(pc = "returned")

RECURSIVE DirectSum(_)
DirectSum(xs) ==
    IF xs = <<>> THEN Zero
    ELSE FAdd(DirectSum(SubSeq(xs, 1, Len(xs) - 1)), xs[Len(xs)])

DirectMean(xs) == FDiv(DirectSum(xs), AsF64(Len(xs)))

RAbs(a) == IF a.n < 0 THEN RNeg(a) ELSE a

\* The largest magnitude among the samples.
RECURSIVE MaxAbs(_)
MaxAbs(xs) ==
    IF xs = <<>> THEN Zero
    ELSE LET m == MaxAbs(SubSeq(xs, 1, Len(xs) - 1))
             a == RAbs(xs[Len(xs)])
         IN  IF RLt(m, a) THEN a ELSE m

\* The machine epsilon: the gap between 1 and the next number.
Epsilon == R(1, 2 ^ (MantissaBits - 1))

\* |mean() - direct mean| <= n * epsilon * max |x_i|.
MeanWithinTolerance ==
    RLe(RAbs(RSub(StatisticsMean(stats), DirectMean(samples))),
        RMul(R(Len(samples), 1), RMul(Epsilon, MaxAbs(samples))))

RECURSIVE SumOfSquaredDeviations(_, _)
SumOfSquaredDeviations(xs, mean) ==
    IF xs = <<>> THEN Zero
    ELSE LET d == FSub(xs[Len(xs)], mean)
         IN  FAdd(SumOfSquaredDeviations(SubSeq(xs, 1, Len(xs) - 1), mean),
                  FMul(d, d))

TwoPassVariance(xs) ==
    FDiv(SumOfSquaredDeviations(xs, DirectMean(xs)), AsF64(Len(xs) - 1))

\* |a - b| <= n * epsilon * max |x_i|^2 for the n samples xs.
WithinSquareTolerance(a, b, xs) ==
    RLe(RAbs(RSub(a, b)),
        RMul(R(Len(xs), 1),
             RMul(Epsilon, RMul(MaxAbs(xs), MaxAbs(xs)))))

Reorderings(xs) ==
    { [i \in 1..Len(xs) |-> xs[p[i]]] : p \in Permutations(1..Len(xs)) }

\* The results of a Statistics object: count, mean() and variance().
StatisticsResults(s) ==
    [count |-> s.count, mean |-> StatisticsMean(s),
     variance |-> StatisticsVariance(s)]

\* The results a and b of n samples xs agree up to rounding: same count,
\* means within n * epsilon * max |x_i|, variances both absent or within
\* n * epsilon * max |x_i|^2.
ResultsWithinTolerance(a, b, xs) ==
    /\ a.count = b.count
    /\ RLe(RAbs(RSub(a.mean, b.mean)),
           RMul(R(Len(xs), 1), RMul(Epsilon, MaxAbs(xs))))
    /\ a.variance.some = b.variance.some
    /\ a.variance.some =>
          WithinSquareTolerance(a.variance.val, b.variance.val, xs)

C13_NewIsEmptyAndZero ==
    statsCall.op = "new" =>
        /\ samples = <<>>
        /\ stats.count = 0
        /\ stats.mean = [n |-> 0, d |-> 1]
        /\ stats.sum_of_squares = [n |-> 0, d |-> 1]
        /\ StatisticsMean(stats) = [n |-> 0, d |-> 1]

\* A Statistics object right after new(): mean() is asked of it and no
\* variance is present yet.
C13_Witness ==
    /\ statsCall.op = "new"
    /\ stats.count = 0
    /\ StatisticsMean(stats) = [n |-> 0, d |-> 1]
    /\ StatisticsVariance(stats) = None

\* push called once per element of xs, in order, on s.
RECURSIVE PushOneByOne(_, _)
PushOneByOne(s, xs) ==
    IF xs = <<>> THEN s
    ELSE StatisticsPush(PushOneByOne(s, SubSeq(xs, 1, Len(xs) - 1)),
                        xs[Len(xs)])

\* C14: from_iter and extend produce exactly the state that one push per
\* element, in iteration order, produces: from_iter from an empty
\* Statistics, extend from the Statistics it is called on, which it does
\* not reset.
C14_BulkIsPushByPush ==
    [][ LET iter == SubSeq(samples', Len(samples) + 1, Len(samples'))
            empty == [count |-> 0, mean |-> [n |-> 0, d |-> 1],
                      sum_of_squares |-> [n |-> 0, d |-> 1]]
        IN  /\ statsCall'.op = "extend" =>
                  /\ statsCall'.len = Len(iter)
                  /\ stats' = PushOneByOne(stats, iter)
                  /\ stats'.count = stats.count + Len(iter)
            /\ statsCall'.op = "from_iter" =>
                  /\ samples = <<>>
                  /\ statsCall'.len = Len(iter)
                  /\ stats' = PushOneByOne(empty, iter)
                  /\ stats'.count = Len(iter) ]_vars

\* extend has taken two samples on a Statistics that already held some,
\* and the object holds all of them.
C14_Witness ==
    /\ statsCall = [op |-> "extend", len |-> 2]
    /\ Len(samples) > 2
    /\ stats.count = Len(samples)
    /\ samples[Len(samples)] # samples[1]

\* C15: the sampler computes its envelope M = max(energy) at construction
\* and keeps it; every mu it returns lies in [-1, 1) and was accepted
\* because its paired draw u from [0, M) was less than eval(energy, mu), so
\* the density at a returned mu is positive.
C15_ReturnedMuWasAccepted ==
    [][ /\ object.kind = "RejectionSampler" => object' = object
        /\ libPc' = "returned" =>
              /\ Ok(object'.xsection_dist.high) \in
                     CrossSectionMax(object'.dist, object'.energy)
              /\ result'.val = args'.random_mu
              /\ RLe(R(-1, 1), result'.val) /\ RLt(result'.val, One)
              /\ RLe(Zero, args'.random_xsection)
              /\ RLt(args'.random_xsection, object'.xsection_dist.high)
              /\ \E o \in CrossSectionEval(object'.dist, object'.energy,
                                            result'.val) :
                    /\ ~o.panicked
                    /\ RLt(args'.random_xsection, o.val)
                    /\ RGt(o.val, Zero) ]_vars

\* gen_mu has returned a mu after rejecting a candidate whose draw was not
\* below the cross-section.
C15_Witness ==
    /\ libPc = "returned"
    /\ object.kind = "RejectionSampler"
    /\ result = [kind |-> "Mu", val |-> args.random_mu]
    /\ RGt(args.random_xsection, Zero)
    /\ RLt(args.random_xsection, args.max_xsection)

\* C16: constructing a RejectionSampler and sampling from it never fail,
\* for any cross-section and energy, and no call changes the sampler.
C16_SamplingNeverFails ==
    [][ /\ libPc' # "panicked"
        /\ object.kind = "RejectionSampler" => object' = object ]_vars

\* The squared length dx^2 + dy^2 of a direction, computed exactly.
SquaredLength(d) == RAdd(RMul(d.dx, d.dx), RMul(d.dy, d.dy))

\* Both components of a and b differ by at most tol.
DirectionsWithin(a, b, tol) ==
    /\ RLe(RAbs(RSub(a.dx, b.dx)), tol)
    /\ RLe(RAbs(RSub(a.dy, b.dy)), tol)

\* The last two rotate calls were rotate(theta) and rotate(-theta).
RotatedThereAndBack ==
    /\ libPc = "rotated"
    /\ Len(args) >= 2
    /\ args[Len(args)] = AngleNeg(args[Len(args) - 1])

\* C17 as stated: for every Direction and every angle theta, rotate(theta)
\* followed by rotate(-theta) restores the original (dx, dy).
C17_RotateBackRestores ==
    RotatedThereAndBack => 
        /\ object.dx = result.before[Len(args) - 1].dx
        /\ object.dy = result.before[Len(args) - 1].dy

\* C17: for every Direction with finite components and every angle theta,
\* rotate(theta) followed by rotate(-theta) restores the original dx and dy
\* to within 4 * epsilon each.
C17_RotateBackRestoresNearly ==
    (RotatedThereAndBack /\ IsFinite(result.before[Len(args) - 1].dx)) =>
        DirectionsWithin(object, result.before[Len(args) - 1],
                         RMul(R(4, 1), Epsilon))

\* A Direction rotated there and back that differs from the original.
C17_Witness ==
    /\ RotatedThereAndBack
    /\ IsFinite(result.before[Len(args) - 1].dx)
    /\ args[Len(args)].s # Zero
    /\ object.dx # result.before[Len(args) - 1].dx

\* C18: every Direction satisfies dx^2 + dy^2 = 1, after Direction::new,
\* from_angle and random generation and after any sequence of rotate calls.
C18_DirectionIsUnit ==
    object.kind = "Direction" => SquaredLength(object) = One

\* dx^2 + dy^2 is within (2 + 2 * rotations) * epsilon of 1 for every
\* Direction with finite components.
C18_FiniteDirectionNearlyUnit ==
    (object.kind = "Direction" /\ IsFinite(object.dx)) =>
        RLe(RAbs(RSub(SquaredLength(object), One)),
            RMul(R(2 + 2 * Len(args), 1), Epsilon))

\* Direction::new(0, 0) has returned a Direction without a length.
C18_ZeroVectorHasNoLength ==
    ~(object.kind = "Direction" /\ IsNaN(object.dx))

\* E / (1 + kappa * (1 - mu)) with kappa = E / (m_e c^2), computed exactly.
ComptonFormula(energy, mu) ==
    RDiv(energy, RAdd(One, RMul(RDiv(energy, RestEnergy), RSub(One, mu))))

\* C19: compton_scatter(E, mu) is a pure function: it changes nothing, it
\* returns the same value for the same arguments, the value is
\* E / (1 + kappa * (1 - mu)) with kappa = E / (m_e c^2) evaluated in f64
\* (within 2 * epsilon * E of the exact quotient), and for mu = 1 it is
\* exactly E.
C19_ComptonFormulaAndNoLossAtZeroAngle ==
    [][ libPc' = "returned" =>
          /\ RLe(RAbs(RSub(result'.val,
                           ComptonFormula(args'.energy, args'.mu))),
                 RMul(R(2, 1), RMul(Epsilon, args'.energy)))
          /\ (args'.mu = One => result'.val = args'.energy)
          /\ (libPc = "returned" /\ args' = args => result' = result)
          /\ UNCHANGED <<object, transportVars, statsVars>> ]_vars

\* compton_scatter has been called with E = 3/4 and mu = 1 and returned 3/4.
C19_Witness ==
    /\ libPc = "returned"
    /\ args.mu = One
    /\ result.val = args.energy
    /\ args.energy = R(3, 4)

\* C20: integrate(f, a..b, sample_size) returns a Statistics that has
\* accumulated exactly sample_size samples, each equal to f(x) * (b - a)
\* for a point x drawn from [a, b), and it has drawn exactly sample_size
\* points.
C20_IntegrateAccumulatesSampleSize ==
    libPc = "returned" /\ result.kind = "Statistics" =>
        /\ result.val.count = args.sample_size
        /\ Len(args.drawn) = args.sample_size
        /\ Len(samples) = args.sample_size
        /\ \A i \in 1..Len(samples) :
             /\ RLe(args.range.start, args.drawn[i])
             /\ RLt(args.drawn[i], args.range.end)
             /\ samples[i] = FMul(Apply(args.f, args.drawn[i]),
                                  FSub(args.range.end, args.range.start))
        /\ result.val = StatisticsFromIter(samples)

\* integrate has returned after sample_size = 3 draws over a range of width
\* 3/2, the last sample differing from f(x).
C20_Witness ==
    /\ libPc = "returned"
    /\ result.kind = "Statistics"
    /\ args.sample_size = 3
    /\ result.val.count = 3
    /\ args.range = [start |-> R(1, 2), end |-> R(2, 1)]
    /\ samples[3] # Apply(args.f, args.drawn[3])

\* The last step was f.call(x), on the function still in object.
Called == object.kind = "Function" /\ args.op = "call"

\* The value call(x) is to return inside the domain: the tabulated y of a
\* point with this x, else the linear interpolation between the neighbours.
TabulatedOrInterpolated(f, x, y) ==
    LET n == Len(f.xdata)
    IN  IF \E i \in 1..n : f.xdata[i] = x
        THEN \E i \in 1..n : f.xdata[i] = x /\ f.ydata[i] = y
        ELSE \E i \in 1..(n - 1) :
                /\ RLt(f.xdata[i], x) /\ RLt(x, f.xdata[i + 1])
                /\ y = RAdd(f.ydata[i],
                            RDiv(RMul(RSub(f.ydata[i + 1], f.ydata[i]),
                                      RSub(x, f.xdata[i])),
                                 RSub(f.xdata[i + 1], f.xdata[i])))

\* C21: call(x) fails for every x outside the domain [min, max) of the
\* function and never extrapolates; for x inside the domain it returns the
\* tabulated y when x is a table point and otherwise the linear
\* interpolation between the two neighbouring points.
C21_CallFailsOutsideDomain ==
    Called =>
        LET domain == FunctionDomain(Held)
            inside == RLe(domain.start, args.x) /\ RLt(args.x, domain.end)
        IN  IF inside
            THEN result.kind = "Y"
                 /\ TabulatedOrInterpolated(Held, args.x, result.val)
            ELSE result.kind = "Panic"

\* The same with the closed interval [min, max] in the place of the domain.
C21_CallFailsOutsideClosedInterval ==
    Called =>
        LET domain == FunctionDomain(Held)
            inside == RLe(domain.start, args.x) /\ RLe(args.x, domain.end)
        IN  IF inside
            THEN result.kind = "Y"
                 /\ TabulatedOrInterpolated(Held, args.x, result.val)
            ELSE result.kind = "Panic"

\* The invariants of a Function: xdata and ydata have the same non-zero
\* length, xdata is sorted non-decreasing, ymin and ymax are the smallest
\* and the largest value in ydata.
FunctionInvariants(f) ==
    /\ Len(f.xdata) = Len(f.ydata)
    /\ Len(f.xdata) >= 1
    /\ \A i \in 1..(Len(f.xdata) - 1) : RLe(f.xdata[i], f.xdata[i + 1])
    /\ \E i \in 1..Len(f.ydata) : f.ydata[i] = FunctionMin(f)
    /\ \E i \in 1..Len(f.ydata) : f.ydata[i] = FunctionMax(f)
    /\ \A i \in 1..Len(f.ydata) :
         RLe(FunctionMin(f), f.ydata[i]) /\ RLe(f.ydata[i], FunctionMax(f))

\* C30: after construction and any sequence of successful push, scale_x and
\* scale_y calls a Function keeps its invariants (equal non-zero lengths,
\* xdata sorted, min() and max() the smallest and largest y), and a push
\* with x less than the last x fails and leaves the function unchanged.
C30_FunctionKeepsInvariants ==
    [][ /\ object'.kind = "Function" =>
             FunctionInvariants([xdata |-> object'.xdata,
                                 ydata |-> object'.ydata,
                                 ymin |-> object'.ymin,
                                 ymax |-> object'.ymax])
        /\ (args'.op = "push" /\ RLt(args'.x, FunctionDomain(Held).end)) =>
             (libPc' = "panicked" /\ object' = object) ]_vars

\* A table of three points whose last pushed y is a new maximum, after a
\* scale call.
C30_Witness ==
    /\ object.kind = "Function"
    /\ Len(object.xdata) = 3
    /\ args.op = "push"
    /\ args.scaled = 1
    /\ args.y = object.ymax
    /\ object.ymin # object.ymax
    /\ RLt(object.ydata[2], args.y)

\* The cumulative sum w0 + ... + wi of choose (i counts from 0), as the f64
\* running sum.
CumulativeSum(weights, i) == SumF64(SubSeq(weights, 1, i + 1))

\* C22: for weights with positive sum and u drawn from [0, sum), choose
\* returns the first index i whose cumulative sum w0 + ... + wi exceeds u;
\* it always returns an index in 0..k-1 (unreachable!() is never reached,
\* in choose and in choose_pb_process) and never a category of weight 0.
C22_ChooseReturnsFirstExceeding ==
    (libPc # "idle" /\ RGt(SumF64(args.weights), Zero)) =>
        /\ libPc = "returned"
        /\ result.kind = "Index"
        /\ result.val \in 0..(Len(args.weights) - 1)
        /\ RGt(CumulativeSum(args.weights, result.val), args.choice)
        /\ \A j \in 0..(result.val - 1) :
             ~RGt(CumulativeSum(args.weights, j), args.choice)
        /\ args.weights[result.val + 1] # Zero
        /\ (Len(args.weights) = 3 => result.event # "unreachable")

\* choose has skipped a category of weight 0 and one of non-zero weight and
\* returned the last of three.
C22_Witness ==
    /\ libPc = "returned"
    /\ result.kind = "Index"
    /\ Len(args.weights) = 3
    /\ args.weights[1] = Zero
    /\ args.weights[2] # Zero
    /\ result.val = 2
    /\ result.event = "Absorbed"

\* The photon of a transport step after its move, before the event: the
\* step of length scale' applied to the photon the step started with.
Moved == PhotonStep(photon, scale').photon

\* The step taken is a transport step that drew an event.
DrewEvent == pc = "propagate" /\ pc' # "panicked" /\ event' # "NoEvent"

\* C23: the event resolution of a transport step never changes the
\* photon's location; it changes the direction only on CoherentScatter and
\* IncoherentScatter (rotation by the sampled angle) and the energy only on
\* IncoherentScatter (to the energy the experiment returns); on Nothing the
\* photon is unchanged and stays Propagating, and both scatter events stay
\* Propagating.
C23_EventResolutionFrame ==
    [][ DrewEvent =>
          /\ photon'.location = Moved.location
          /\ event' \notin {"CoherentScatter", "IncoherentScatter"} =>
                photon'.direction = Moved.direction
          /\ event' # "IncoherentScatter" => photon'.energy = Moved.energy
          /\ event' = "Nothing" => photon' = Moved /\ status' = "Propagating"
          /\ event' = "CoherentScatter" =>
                /\ status' = "Propagating"
                /\ \E angle \in GenCoherentScatter(exp, material', Moved.energy) :
                     photon'.direction = DirectionRotate(Moved.direction, angle)
          /\ event' = "IncoherentScatter" =>
                /\ status' = "Propagating"
                /\ \E ae \in GenIncoherentScatter(exp, material', Moved.energy) :
                     /\ photon'.direction = DirectionRotate(Moved.direction, ae[1])
                     /\ photon'.energy = ae[2] ]_vars

\* A photon has lost energy in an incoherent scatter and keeps propagating.
C23_Witness ==
    /\ event = "IncoherentScatter"
    /\ status = "Propagating"
    /\ pc = "propagate"
    /\ RLt(photon.energy, Source(exp).energy)

\* C24: within one transport step the material is determined twice: the
\* step length is chosen from the material at the location before the
\* move, and the event and the Detector test for Absorbed use the material
\* at the location after the move, never the one from before the move.
C24_MaterialDeterminedTwice ==
    [][ (pc = "propagate" /\ pc' # "panicked") =>
          /\ scale' \in FreePathScales(
                 GetMeanFreePath(exp, GetMaterial(exp, photon.location),
                                 photon.energy))
          /\ event' # "NoEvent" =>
                /\ material' = GetMaterial(exp, Moved.location)
                /\ event' \in GenEvent(exp, GetMaterial(exp, Moved.location),
                                       Moved.energy)
                /\ (status' = "Detected") <=>
                      ( /\ event' = "Absorbed"
                        /\ GetMaterial(exp, Moved.location) = "Detector" ) ]_vars

\* A photon was detected at the end of a step that started outside the
\* detector.
C24_Witness ==
    /\ status = "Detected"
    /\ event = "Absorbed"
    /\ material = "Detector"
    /\ IsFinite(photon.location.x)
    /\ GetMaterial(exp, PointStep(photon.location, photon.direction,
                                  RNeg(scale))) # "Detector"

\* go_to_x(x), for one target x, behaves as C25 says: WrongDirection and an
\* unchanged photon when the direction points away from x, and after Ok the
\* photon is at x with its direction and energy as before.
GoToXAsStated(x) ==
    (call' = "go_to_x" /\ scale' = GoToXScale(photon, x)) =>
        /\ RLt(RMul(RSub(x, photon.location.x), photon.direction.dx), Zero) =>
              entry' = "WrongDirection"
        /\ entry' = "WrongDirection" => photon' = photon
        /\ entry' = "Ok" =>
              /\ photon'.location.x = x
              /\ photon'.direction = photon.direction
              /\ photon'.energy = photon.energy

\* The same for go_to_y(y).
GoToYAsStated(y) ==
    (call' = "go_to_y" /\ scale' = GoToYScale(photon, y)) =>
        /\ RLt(RMul(RSub(y, photon.location.y), photon.direction.dy), Zero) =>
              entry' = "WrongDirection"
        /\ entry' = "WrongDirection" => photon' = photon
        /\ entry' = "Ok" =>
              /\ photon'.location.y = y
              /\ photon'.direction = photon.direction
              /\ photon'.energy = photon.energy

\* C25: Photon::go_to_x(x) returns WrongDirection and leaves the photon
\* unchanged whenever x cannot be reached because the direction points away
\* from it; whenever it returns Ok the photon's x-coordinate afterwards
\* equals x and its direction and energy are unchanged; the same holds for
\* go_to_y on the Y-axis.
C25_GoToReachesTargetOrFails ==
    [][ /\ \A x \in Targets : GoToXAsStated(x)
        /\ \A y \in Targets : GoToYAsStated(y) ]_vars

\* The same for the photons whose direction has a non-zero component along
\* the axis of the call.
C25_GoToReachesTargetUnlessParallel ==
    [][ /\ photon.direction.dx # Zero => \A x \in Targets : GoToXAsStated(x)
        /\ photon.direction.dy # Zero => \A y \in Targets : GoToYAsStated(y) ]_vars

\* C26: in simulate_particle every photon on which an event is drawn or a
\* scatter applied has x >= x_start(): the first transport step of a trial
\* starts with the photon exactly at x = x_start(), and a step that ends
\* with x < x_start() ends the trial before the event draw.
C26_EventsAtOrBeyondStart ==
    /\ event # "NoEvent" => RGe(photon.location.x, XStart(exp))
    /\ (pc = "propagate" /\ status = "None") => photon.location.x = XStart(exp)
    /\ (status # "None" /\ RLt(photon.location.x, XStart(exp))) =>
          (status = "Lost" /\ event = "NoEvent" /\ pc = "emit")

\* The same for photons whose coordinates are numbers.
C26_EventsAtOrBeyondStartUnlessNaN ==
    ~IsNaN(photon.location.x) => C26_EventsAtOrBeyondStart

\* xs is an initial part of ys.
IsPrefix(xs, ys) == Len(xs) <= Len(ys) /\ SubSeq(ys, 1, Len(xs)) = xs

C28_EnergyPositiveAndNeverAboveEmitted ==
    [][ /\ pc = "emit" => photon'.energy = Source(exp).energy
        /\ photon' # NoPhoton =>
              /\ RGt(photon'.energy, Zero)
              /\ RLe(photon'.energy, Source(exp).energy)
        /\ pc = "propagate" => RLe(photon'.energy, photon.energy)
        /\ (DrewEvent /\ event' = "IncoherentScatter") =>
              /\ \E mu \in MuDraws :
                    photon'.energy = ComptonScatter(photon.energy, mu)
              /\ RLe(photon'.energy, photon.energy) ]_vars

\* A photon of the collimator that has lost energy in two incoherent
\* scatters, or in one backward scatter: it is at a third of the source's
\* energy.
C28_Witness ==
    /\ exp.kind = "Collimator"
    /\ event = "IncoherentScatter"
    /\ photon.energy = ComptonScatter(Source(exp).energy, R(-1, 1))
    /\ RGt(photon.energy, Zero)

\* The sum of the bin contents.
RECURSIVE SumOfWeights(_)
SumOfWeights(w) == IF w = <<>> THEN 0 ELSE Head(w) + SumOfWeights(Tail(w))

\* The fill calls whose value lay inside [low, high].
InRangeFills(h, xs) == { k \in 1..Len(xs) : Contains(h.range, xs[k]) }

\* fill(x) has acted as stated: outside [low, high] every bin is as before;
\* inside, the first bin whose two edges enclose x has gone up by 1 and every
\* other bin is as before.
FilledAsStated(h, x, after) ==
    LET bins == 1..Len(h.weights)
        enclosing == { k \in bins : Contains(<<h.edges[k], h.edges[k + 1]>>, x) }
    IN  IF ~Contains(h.range, x) THEN after = h
        ELSE /\ enclosing # {}
             /\ \A k \in bins :
                   after.weights[k] =
                       IF k \in enclosing /\ \A j \in enclosing : k <= j
                       THEN h.weights[k] + 1
                       ELSE h.weights[k]
             /\ after.edges = h.edges
             /\ after.range = h.range

\* C29: Histogram::fill(x) with x outside [low, high] leaves every bin
\* unchanged; with x inside [low, high] it increments exactly one bin by 1,
\* the first bin i with edges[i] <= x <= edges[i+1] (a value on a shared edge
\* goes to the lower bin); find_bin never reaches unreachable!(); and after
\* any sequence of fills the sum of the bin contents is the number of
\* in-range fills.
C29_FillIncrementsFirstEnclosingBin ==
    [][ args'.op = "fill" =>
          /\ libPc' # "panicked"
          /\ FilledAsStated(object.hist, args'.xs[Len(args'.xs)], object'.hist)
          /\ SumOfWeights(object'.hist.weights) =
                Cardinality(InRangeFills(object'.hist, args'.xs)) ]_vars

\* The last edge of the histogram is the upper limit it was built with.
LastEdgeIsHigh(h) == h.edges[Len(h.edges)] = h.range[2]

\* The statement of C29 for the histograms whose last edge, low +
\* bin_width * nbins as f64 computes it, is the upper limit.
C29_FillOfHistogramEndingAtHigh ==
    [][ (args'.op = "fill" /\ LastEdgeIsHigh(object.hist)) =>
          /\ libPc' # "panicked"
          /\ FilledAsStated(object.hist, args'.xs[Len(args'.xs)], object'.hist)
          /\ SumOfWeights(object'.hist.weights) =
                Cardinality(InRangeFills(object'.hist, args'.xs)) ]_vars

\* A histogram of two bins was filled on its shared edge, then outside its
\* range: the lower bin holds the one entry.
C29_SharedEdgeWitness ==
    /\ libPc = "returned"
    /\ object.kind = "Histogram"
    /\ Len(object.hist.weights) = 2
    /\ Len(args.xs) = 2
    /\ args.xs[1] = object.hist.edges[2]
    /\ ~Contains(object.hist.range, args.xs[2])
    /\ object.hist.weights = <<1, 0>>

\* fill panicked in find_bin on a value inside [low, high].
C29_UnreachableReached ==
    /\ libPc = "panicked"
    /\ object.kind = "Histogram"
    /\ Contains(object.hist.range, args.xs[Len(args.xs)])

====
